---- MODULE Spec2Model ----
(***************************************************************************)
(* A model of the whisper round-robin database (whisper.py): the file      *)
(* layout, create, update, update_many, fetch, merge, diff and the         *)
(* metadata mutators, with the ring-buffer offset arithmetic of the code.  *)
(*                                                                         *)
(* Bytes are modelled at the granularity the code addresses them: the      *)
(* 16-byte metadata block and the 12-byte archive descriptors as decoded   *)
(* fields, the body as a sequence of 12-byte points.  A double is modelled *)
(* as an exact rational (records [n, d] in lowest terms); the 32-bit float *)
(* of the header is modelled by its rounding (F32).                        *)
(***************************************************************************)
EXTENDS Integers, Sequences, FiniteSets, TLC

VARIABLES files, now, res, calls, LOCK, CACHE_HEADERS, headerCache, procs, script

vars == <<files, now, res, calls, LOCK, CACHE_HEADERS, headerCache, procs, script>>

\* the module-level flags, the header cache, and the operations and the
\* resize script that are under way
ambient == <<LOCK, CACHE_HEADERS, headerCache, procs, script>>

(***************************************************************************)
(* Struct sizes (struct.calcsize of the formats)                           *)
(***************************************************************************)
pointSize == 12
metadataSize == 16
archiveInfoSize == 12
chunksize == 16384

(***************************************************************************)
(* Bounds of the model                                                     *)
(***************************************************************************)
\* the clock starts here (well above every archive step) and runs MaxTicks on
StartTime == 100
MaxTicks == 4
\* the longest batch handed to update_many
MaxBatch == 3
\* the number of writing calls (update, update_many, merge) in one run
MaxCalls == 3
\* archive lists handed to validateArchiveList: their length, and the largest
\* secondsPerPoint and points of an archive
MaxArchives == 3
MaxStep == 4
MaxPoints == 3

Max(a, b) == IF a > b THEN a ELSE b
Min(a, b) == IF a < b THEN a ELSE b
Abs(x) == IF x < 0 THEN -x ELSE x

(***************************************************************************)
(* Doubles as exact rationals; None as the record with denominator 0       *)
(***************************************************************************)
RECURSIVE GCD(_, _)
GCD(a, b) == IF b = 0 THEN a ELSE GCD(b, a % b)

Rat(n, d) == LET g == GCD(Abs(n), d) IN [n |-> n \div g, d |-> d \div g]
float(i) == [n |-> i, d |-> 1]
None == [n |-> 0, d |-> 0]
RAdd(a, b) == Rat(a.n * b.d + b.n * a.d, a.d * b.d)
RDiv(a, k) == Rat(a.n, a.d * k)
RLess(a, b) == a.n * b.d < b.n * a.d
RAbs(a) == [n |-> Abs(a.n), d |-> a.d]

\* float('nan') and float('inf'); NotAFloat is a string float() cannot parse
NaN == [n |-> 0, d |-> -1]
Infinity == [n |-> 1, d |-> 0]
NotAFloat == [n |-> 0, d |-> -2]
\* a < b on doubles: every comparison with NaN is false
FLess(a, b) == a # NaN /\ b # NaN /\ RLess(a, b)
\* a <= b on doubles
FLessEq(a, b) == a # NaN /\ b # NaN /\ ~RLess(b, a)

RECURSIVE sum(_)
sum(s) == IF s = <<>> THEN float(0) ELSE RAdd(s[1], sum(Tail(s)))

\* max(values) / min(values) with an optional key: the first extremal element
RECURSIVE maxBy(_, _)
maxBy(s, useAbs) ==
  IF Len(s) = 1 THEN s[1]
  ELSE LET m == maxBy(SubSeq(s, 1, Len(s) - 1), useAbs)
           x == s[Len(s)]
       IN IF (IF useAbs THEN RLess(RAbs(m), RAbs(x)) ELSE RLess(m, x)) THEN x ELSE m

RECURSIVE minBy(_, _)
minBy(s, useAbs) ==
  IF Len(s) = 1 THEN s[1]
  ELSE LET m == minBy(SubSeq(s, 1, Len(s) - 1), useAbs)
           x == s[Len(s)]
       IN IF (IF useAbs THEN RLess(RAbs(x), RAbs(m)) ELSE RLess(x, m)) THEN x ELSE m

(***************************************************************************)
(* struct.pack("!f", x) followed by struct.unpack: the nearest 32-bit      *)
(* float (24-bit significand, ties to even) of a rational in [0, 1]; a     *)
(* value that already is such a float is kept                              *)
(***************************************************************************)
RECURSIVE Pow2(_)
Pow2(e) == IF e = 0 THEN 1 ELSE 2 * Pow2(e - 1)

RECURSIVE F32Exp(_, _)
F32Exp(x, e) == IF x.n * Pow2(e) >= x.d * Pow2(23) THEN e ELSE F32Exp(x, e + 1)

F32(x) ==
  IF x.n = 0 THEN float(0)
  ELSE IF Pow2(30) % x.d = 0 /\ x.n < Pow2(24) THEN x
  ELSE LET e == F32Exp(x, 0)
           num == x.n * Pow2(e)
           q == num \div x.d
           r == num % x.d
           m == IF 2 * r > x.d \/ (2 * r = x.d /\ q % 2 = 1) THEN q + 1 ELSE q
       IN Rat(m, Pow2(e))

\* struct.pack(floatFormat, x) as the header stores it: NaN stays NaN
packFloat(x) == IF x = NaN THEN NaN ELSE F32(x)

(***************************************************************************)
(* Aggregation methods                                                     *)
(***************************************************************************)
aggregationTypeToMethod ==
  <<"average", "sum", "last", "max", "min", "avg_zero", "absmax", "absmin">>

aggregationMethods == {aggregationTypeToMethod[i] : i \in 1..8}

aggregationMethodToType(m) ==
  CHOOSE i \in 1..8 : aggregationTypeToMethod[i] = m

\* aggregate with absmax and absmin comparing the signed values (key=abs lost)
aggregateSigned(aggregationMethod, knownValues, neighborValues) ==
  CASE aggregationMethod = "average" -> RDiv(sum(knownValues), Len(knownValues))
    [] aggregationMethod = "sum" -> sum(knownValues)
    [] aggregationMethod = "last" -> knownValues[Len(knownValues)]
    [] aggregationMethod = "max" -> maxBy(knownValues, FALSE)
    [] aggregationMethod = "min" -> minBy(knownValues, FALSE)
    [] aggregationMethod = "avg_zero" ->
         RDiv(sum([i \in 1..Len(neighborValues) |->
                     IF neighborValues[i] = None THEN float(0) ELSE neighborValues[i]]),
              Len(neighborValues))
    [] aggregationMethod = "absmax" -> maxBy(knownValues, FALSE)
    [] aggregationMethod = "absmin" -> minBy(knownValues, FALSE)

\* aggregate with avg_zero averaging over the known values only
aggregateKnownOnly(aggregationMethod, knownValues, neighborValues) ==
  CASE aggregationMethod = "average" -> RDiv(sum(knownValues), Len(knownValues))
    [] aggregationMethod = "sum" -> sum(knownValues)
    [] aggregationMethod = "last" -> knownValues[Len(knownValues)]
    [] aggregationMethod = "max" -> maxBy(knownValues, FALSE)
    [] aggregationMethod = "min" -> minBy(knownValues, FALSE)
    [] aggregationMethod = "avg_zero" -> RDiv(sum(knownValues), Len(knownValues))
    [] aggregationMethod = "absmax" -> maxBy(knownValues, TRUE)
    [] aggregationMethod = "absmin" -> minBy(knownValues, TRUE)

\* neighborValues=None, the default; like the empty list it is false in
\* `if not neighborValues`
NoNeighbors == <<>>

\* the exception aggregate raises, "" when it returns a value
aggregateError(aggregationMethod, neighborValues) ==
  IF aggregationMethod = "avg_zero"
  THEN (IF neighborValues = NoNeighbors THEN "InvalidAggregationMethod" ELSE "")
  ELSE IF aggregationMethod \in {"average", "sum", "last", "max", "min", "absmax", "absmin"}
       THEN ""
       ELSE "InvalidAggregationMethod"

\* aggregate(aggregationMethod, knownValues, neighborValues); knownValues is
\* never empty where the code calls it
aggregate(aggregationMethod, knownValues, neighborValues) ==
  CASE aggregationMethod = "average" -> RDiv(sum(knownValues), Len(knownValues))
    [] aggregationMethod = "sum" -> sum(knownValues)
    [] aggregationMethod = "last" -> knownValues[Len(knownValues)]
    [] aggregationMethod = "max" -> maxBy(knownValues, FALSE)
    [] aggregationMethod = "min" -> minBy(knownValues, FALSE)
    [] aggregationMethod = "avg_zero" ->
         RDiv(sum([i \in 1..Len(neighborValues) |->
                     IF neighborValues[i] = None THEN float(0) ELSE neighborValues[i]]),
              Len(neighborValues))
    [] aggregationMethod = "absmax" -> maxBy(knownValues, TRUE)
    [] aggregationMethod = "absmin" -> minBy(knownValues, TRUE)

(***************************************************************************)
(* The file: size in bytes, the decoded header fields, and the body as the *)
(* sequence of points that follows the header                              *)
(***************************************************************************)
ZeroPoint == [ts |-> 0, val |-> float(0)]
\* the file open(path, 'wb') leaves: created and empty
EmptyFile ==
  [size |-> 0, aggregationType |-> 0, maxRetention |-> 0, xff |-> float(0),
   archiveCount |-> 0, archives |-> <<>>, body |-> <<>>]
\* no file at the path
NoFile == [EmptyFile EXCEPT !.size = -1]
Exists(f) == f.size >= 0

BodyStart(f) == metadataSize + archiveInfoSize * Len(f.archives)
SlotOf(f, off) == (off - BodyStart(f)) \div pointSize + 1

\* fh.seek(off); fh.read(n): the points of [off, off + n), cut at end of file
ReadAt(f, off, n) ==
  LET end == Min(off + n, f.size)
      cnt == IF end > off THEN (end - off) \div pointSize ELSE 0
      first == SlotOf(f, off)
  IN SubSeq(f.body, first, first + cnt - 1)

\* fh.seek(off); fh.write(pack(pts)): a write past the end extends the file
\* (a gap between the old end and off reads as zeros)
WriteAt(f, off, pts) ==
  LET first == SlotOf(f, off)
      last == first + Len(pts) - 1
      before == SubSeq(f.body, 1, Min(first - 1, Len(f.body)))
                  \o [i \in 1..Max(0, first - 1 - Len(f.body)) |-> ZeroPoint]
      after == SubSeq(f.body, last + 1, Len(f.body))
  IN [f EXCEPT !.body = before \o pts \o after,
               !.size = Max(f.size, off + pointSize * Len(pts))]

\* __readHeader: the decoded header with retention and size per archive
readHeader(f) ==
  [aggregationMethod |-> aggregationTypeToMethod[f.aggregationType],
   maxRetention |-> f.maxRetention,
   xFilesFactor |-> f.xff,
   archives |-> [i \in 1..f.archiveCount |->
                   [offset |-> f.archives[i].offset,
                    secondsPerPoint |-> f.archives[i].secondsPerPoint,
                    points |-> f.archives[i].points,
                    retention |-> f.archives[i].secondsPerPoint * f.archives[i].points,
                    size |-> f.archives[i].points * pointSize]]]

\* the exception __readHeader raises, "" when it returns the header: a short
\* read of the metadata or of an archive descriptor fails to unpack
headerErrorMetadataOnly(f) ==
  IF f.size < metadataSize THEN "CorruptWhisperFile"
  ELSE IF f.aggregationType \notin DOMAIN aggregationTypeToMethod THEN "CorruptWhisperFile"
  ELSE IF ~(FLessEq(float(0), f.xff) /\ FLessEq(f.xff, float(1))) THEN "CorruptWhisperFile"
  ELSE ""

headerError(f) ==
  IF f.size < metadataSize THEN "CorruptWhisperFile"
  ELSE IF f.aggregationType \notin DOMAIN aggregationTypeToMethod THEN "CorruptWhisperFile"
  ELSE IF ~(FLessEq(float(0), f.xff) /\ FLessEq(f.xff, float(1))) THEN "CorruptWhisperFile"
  ELSE IF f.size < metadataSize + archiveInfoSize * f.archiveCount THEN "CorruptWhisperFile"
  ELSE ""

\* the byte offset of the ring slot of `interval`, given the base interval
RingOffset(archive, baseInterval, interval) ==
  LET timeDistance == interval - baseInterval
      pointDistance == timeDistance \div archive.secondsPerPoint
      byteDistance == pointDistance * pointSize
  IN archive.offset + (byteDistance % archive.size)

\* the wrap-aware read of [fromOffset, untilOffset) inside one archive
ReadRange(f, archive, fromOffset, untilOffset) ==
  IF fromOffset < untilOffset
  THEN ReadAt(f, fromOffset, untilOffset - fromOffset)
  ELSE ReadAt(f, fromOffset, archive.offset + archive.size - fromOffset)
         \o ReadAt(f, archive.offset, untilOffset - archive.offset)

\* Decode returning the value of every written point, whatever its lap
DecodeAnyLap(series, firstInterval, step) ==
  [i \in 1..Len(series) |-> IF series[i].ts # 0 THEN series[i].val ELSE None]

\* the dense vector: a value only where the stored timestamp is the expected one
Decode(series, firstInterval, step) ==
  [i \in 1..Len(series) |->
     IF series[i].ts = firstInterval + (i - 1) * step THEN series[i].val ELSE None]

SelectKnown(values) == SelectSeq(values, LAMBDA v : v # None)

(***************************************************************************)
(* __propagate(fh, header, timestamp, higher, lower)                       *)
(***************************************************************************)
\* propagateValues with the xFilesFactor test strict (> for >=)
propagateValuesStrict(f, header, lower, lowerIntervalStart, neighborValues) ==
  LET knownValues == SelectKnown(neighborValues)
      xff == header.xFilesFactor
      enough == Len(knownValues) * xff.d > xff.n * Len(neighborValues)
      myPoint == [ts |-> lowerIntervalStart,
                  val |-> aggregate(header.aggregationMethod, knownValues, neighborValues)]
      lowerBaseInterval == ReadAt(f, lower.offset, pointSize)[1].ts
      lowerOffset ==
        IF lowerBaseInterval = 0 THEN lower.offset
        ELSE RingOffset(lower, lowerBaseInterval, lowerIntervalStart)
      note == [interval |-> lowerIntervalStart, known |-> Len(knownValues),
               neighbors |-> Len(neighborValues)]
  IN IF knownValues = <<>> THEN [f |-> f, ok |-> FALSE, note |-> note]
     ELSE IF enough THEN [f |-> WriteAt(f, lowerOffset, <<myPoint>>), ok |-> TRUE, note |-> note]
     ELSE [f |-> f, ok |-> FALSE, note |-> note]

\* the second half of __propagate, from the neighborValues that were read:
\* the xFilesFactor test (float(len(knownValues)) / float(len(neighborValues))
\* >= xff, exact for these lengths) and the write of the aggregate
propagateValues(f, header, lower, lowerIntervalStart, neighborValues) ==
  LET knownValues == SelectKnown(neighborValues)
      xff == header.xFilesFactor
      enough == Len(knownValues) * xff.d >= xff.n * Len(neighborValues)
      myPoint == [ts |-> lowerIntervalStart,
                  val |-> aggregate(header.aggregationMethod, knownValues, neighborValues)]
      lowerBaseInterval == ReadAt(f, lower.offset, pointSize)[1].ts
      lowerOffset ==
        IF lowerBaseInterval = 0 THEN lower.offset
        ELSE RingOffset(lower, lowerBaseInterval, lowerIntervalStart)
      note == [interval |-> lowerIntervalStart, known |-> Len(knownValues),
               neighbors |-> Len(neighborValues)]
  IN IF knownValues = <<>> THEN [f |-> f, ok |-> FALSE, note |-> note]
     ELSE IF enough THEN [f |-> WriteAt(f, lowerOffset, <<myPoint>>), ok |-> TRUE, note |-> note]
     ELSE [f |-> f, ok |-> FALSE, note |-> note]

\* the first half: the read of the higher archive's points of the lower interval
readNeighbors(f, timestamp, higher, lower) ==
  LET lowerIntervalStart == timestamp - (timestamp % lower.secondsPerPoint)
      higherBaseInterval == ReadAt(f, higher.offset, pointSize)[1].ts
      higherFirstOffset ==
        IF higherBaseInterval = 0 THEN higher.offset
        ELSE RingOffset(higher, higherBaseInterval, lowerIntervalStart)
      higherPoints == lower.secondsPerPoint \div higher.secondsPerPoint
      higherSize == higherPoints * pointSize
      relativeFirstOffset == higherFirstOffset - higher.offset
      relativeLastOffset == (relativeFirstOffset + higherSize) % higher.size
      higherLastOffset == relativeLastOffset + higher.offset
      seriesString == ReadRange(f, higher, higherFirstOffset, higherLastOffset)
  IN Decode(seriesString, lowerIntervalStart, higher.secondsPerPoint)

propagate(f, header, timestamp, higher, lower) ==
  propagateValues(f, header, lower, timestamp - (timestamp % lower.secondsPerPoint),
                  readNeighbors(f, timestamp, higher, lower))

(***************************************************************************)
(* file_update(fh, value, timestamp, now)                                  *)
(***************************************************************************)
\* the loop over lowerArchives: archive i is `higher`, archive i + 1 `lower`;
\* props collects, per propagation attempted, what it saw and whether it wrote
RECURSIVE cascade(_, _, _, _, _)
RECURSIVE cascadeStep(_, _, _, _, _)
cascadeStep(header, myInterval, i, props, p) ==
  LET entry == [lower |-> i + 1, ok |-> p.ok, interval |-> p.note.interval,
                known |-> p.note.known, neighbors |-> p.note.neighbors]
  IN IF ~p.ok THEN [f |-> p.f, props |-> Append(props, entry)]
     ELSE cascade(p.f, header, myInterval, i + 1, Append(props, entry))

cascade(f, header, myInterval, i, props) ==
  IF i >= Len(header.archives) THEN [f |-> f, props |-> props]
  ELSE cascadeStep(header, myInterval, i, props,
                   propagate(f, header, myInterval, header.archives[i],
                             header.archives[i + 1]))

\* targetArchive passing over an archive whose retention equals diff
targetArchiveStrict(header, diff) ==
  LET fits == {i \in 1..Len(header.archives) : header.archives[i].retention > diff}
  IN IF fits = {} THEN 0 ELSE CHOOSE i \in fits : \A j \in fits : i <= j

\* the first archive whose retention is not below diff (0: the loop found none)
targetArchive(header, diff) ==
  LET fits == {i \in 1..Len(header.archives) : ~(header.archives[i].retention < diff)}
  IN IF fits = {} THEN 0 ELSE CHOOSE i \in fits : \A j \in fits : i <= j

\* updateArchive storing the timestamp as given (myInterval not aligned)
updateArchiveUnaligned(f, header, i, value, timestamp) ==
  LET archive == header.archives[i]
      myInterval == timestamp
      myPoint == [ts |-> myInterval, val |-> value]
      baseInterval == ReadAt(f, archive.offset, pointSize)[1].ts
      myOffset == IF baseInterval = 0 THEN archive.offset
                  ELSE RingOffset(archive, baseInterval, myInterval)
  IN [err |-> "", target |-> i, interval |-> myInterval]
       @@ cascade(WriteAt(f, myOffset, <<myPoint>>), header, myInterval, i, <<>>)

\* the write of the point into its archive, before any propagation
archiveWrite(f, archive, myInterval, value) ==
  LET myPoint == [ts |-> myInterval, val |-> value]
      baseInterval == ReadAt(f, archive.offset, pointSize)[1].ts
      myOffset == IF baseInterval = 0 THEN archive.offset
                  ELSE RingOffset(archive, baseInterval, myInterval)
  IN WriteAt(f, myOffset, <<myPoint>>)

\* the body of file_update once the archive (the i-th) is found: the write of
\* the point and the propagation
updateArchive(f, header, i, value, timestamp) ==
  LET archive == header.archives[i]
      myInterval == timestamp - (timestamp % archive.secondsPerPoint)
  IN [err |-> "", target |-> i, interval |-> myInterval]
       @@ cascade(archiveWrite(f, archive, myInterval, value), header, myInterval, i, <<>>)

\* fileUpdate with the retention test inclusive (diff <= maxRetention)
fileUpdateInclusive(f, header, i, value, timestamp, diff) ==
  IF ~((diff <= header.maxRetention) /\ diff >= 0)
  THEN [f |-> f, err |-> "TimestampNotCovered", target |-> 0, interval |-> 0, props |-> <<>>]
  ELSE IF i = 0
  THEN [f |-> f, err |-> "UnboundLocalError", target |-> 0, interval |-> 0, props |-> <<>>]
  ELSE updateArchive(f, header, i, value, timestamp)

fileUpdate(f, header, i, value, timestamp, diff) ==
  IF ~((diff < header.maxRetention) /\ diff >= 0)
  THEN [f |-> f, err |-> "TimestampNotCovered", target |-> 0, interval |-> 0, props |-> <<>>]
  ELSE IF i = 0
  THEN [f |-> f, err |-> "UnboundLocalError", target |-> 0, interval |-> 0, props |-> <<>>]
  ELSE updateArchive(f, header, i, value, timestamp)

file_update(f, value, timestamp, t) ==
  fileUpdate(f, readHeader(f), targetArchive(readHeader(f), t - timestamp),
             value, timestamp, t - timestamp)

(***************************************************************************)
(* validateArchiveList and create                                          *)
(***************************************************************************)
\* list.sort(key=lambda a: a[0]): a stable sort by the first component
RECURSIVE insertByKey(_, _, _)
insertByKey(x, s, k) ==
  IF s = <<>> THEN <<x>>
  ELSE IF x[k] < s[1][k] THEN <<x>> \o s
  ELSE <<s[1]>> \o insertByKey(x, Tail(s), k)

RECURSIVE sortByKey(_, _)
sortByKey(s, k) ==
  IF s = <<>> THEN <<>>
  ELSE insertByKey(s[Len(s)], sortByKey(SubSeq(s, 1, Len(s) - 1), k), k)

\* TRUE when no InvalidConfiguration is raised; the list is the sorted one
validateArchiveListLoose(archiveList) ==
  /\ archiveList # <<>>
  /\ \A i \in 1..(Len(archiveList) - 1) :
       LET archive == archiveList[i]
           nextArchive == archiveList[i + 1]
       IN /\ archive[1] < nextArchive[1]
          /\ nextArchive[1] % archive[1] = 0
          /\ nextArchive[1] * nextArchive[2] >= archive[1] * archive[2]
          /\ archive[2] >= nextArchive[1] \div archive[1]

validateArchiveList(archiveList) ==
  /\ archiveList # <<>>
  /\ \A i \in 1..(Len(archiveList) - 1) :
       LET archive == archiveList[i]
           nextArchive == archiveList[i + 1]
       IN /\ archive[1] < nextArchive[1]
          /\ nextArchive[1] % archive[1] = 0
          /\ nextArchive[1] * nextArchive[2] > archive[1] * archive[2]
          /\ archive[2] >= nextArchive[1] \div archive[1]

\* __writeHeaderMetadata: the first 16 bytes; xFilesFactor goes through "!f"
writeHeaderMetadata(f, aggregationMethod, maxRetention, xFilesFactor, archiveCount) ==
  IF aggregationMethod \notin aggregationMethods
  THEN [f |-> f, err |-> "InvalidAggregationMethod"]
  ELSE IF xFilesFactor = NotAFloat
  THEN [f |-> f, err |-> "InvalidXFilesFactor"]
  ELSE IF FLess(xFilesFactor, float(0)) \/ FLess(float(1), xFilesFactor)
  THEN [f |-> f, err |-> "InvalidXFilesFactor"]
  ELSE [f |-> [f EXCEPT !.aggregationType = aggregationMethodToType(aggregationMethod),
                        !.maxRetention = maxRetention,
                        !.xff = packFloat(xFilesFactor),
                        !.archiveCount = archiveCount,
                        !.size = Max(f.size, metadataSize)],
        err |-> ""]

RECURSIVE maxOf(_)
maxOf(s) == IF Len(s) = 1 THEN s[1] ELSE Max(s[1], maxOf(Tail(s)))

\* the running sums of create's archiveOffsetPointer
RECURSIVE offsetsFromCounted(_, _)
offsetsFromCounted(archiveList, pointer) ==
  IF archiveList = <<>> THEN <<>>
  ELSE <<[offset |-> pointer, secondsPerPoint |-> archiveList[1][1],
          points |-> archiveList[1][2]]>>
       \o offsetsFromCounted(Tail(archiveList), pointer + archiveList[1][2])

RECURSIVE offsetsFrom(_, _)
offsetsFrom(archiveList, pointer) ==
  IF archiveList = <<>> THEN <<>>
  ELSE <<[offset |-> pointer, secondsPerPoint |-> archiveList[1][1],
          points |-> archiveList[1][2]]>>
       \o offsetsFrom(Tail(archiveList), pointer + archiveList[1][2] * pointSize)

\* the zero-fill loop: the file position after writing `remaining` zero bytes
RECURSIVE zeroFill(_, _)
zeroFill(pos, remaining) ==
  IF remaining > chunksize THEN zeroFill(pos + chunksize, remaining - chunksize)
  ELSE pos + remaining

\* the size of the file after the body has been reserved
reserve(headerSize, archiveOffsetPointer, sparse, useFallocate, canFallocate) ==
  IF canFallocate /\ useFallocate
  THEN Max(headerSize, headerSize + (archiveOffsetPointer - headerSize))
  ELSE IF sparse THEN Max(headerSize, (archiveOffsetPointer - 1) + 1)
  ELSE zeroFill(headerSize, archiveOffsetPointer - headerSize)

\* create on a path where no file exists; xFilesFactor and aggregationMethod
\* None stand for the omitted arguments
create(archiveList, xFilesFactor, aggregationMethod, sparse, useFallocate, canFallocate) ==
  LET xffArg == IF xFilesFactor = None THEN Rat(1, 2) ELSE xFilesFactor
      aggArg == IF aggregationMethod = "None" THEN "average" ELSE aggregationMethod
      sorted == sortByKey(archiveList, 1)
      oldest == maxOf([i \in 1..Len(sorted) |-> sorted[i][1] * sorted[i][2]])
      meta == writeHeaderMetadata(EmptyFile, aggArg, oldest, xffArg, Len(sorted))
      headerSize == metadataSize + archiveInfoSize * Len(sorted)
      archives == offsetsFrom(sorted, headerSize)
      archiveOffsetPointer ==
        archives[Len(sorted)].offset + archives[Len(sorted)].points * pointSize
      size == reserve(headerSize, archiveOffsetPointer, sparse, useFallocate, canFallocate)
  IN IF ~validateArchiveList(sorted) THEN [f |-> NoFile, err |-> "InvalidConfiguration"]
     ELSE IF meta.err # "" THEN [f |-> EmptyFile, err |-> meta.err]
     ELSE [f |-> [meta.f EXCEPT !.archives = archives,
                               !.size = size,
                               !.body = [i \in 1..((size - headerSize) \div pointSize) |-> ZeroPoint]],
           err |-> ""]

\* create's try block when the file object's `method` (write or close) raises
\* `exception`, r being what the call would have written: the except IOError
\* clause unlinks the file, any other exception leaves what was written
createFaultKeep(r, method, exception) ==
  IF r.err # "" THEN r
  ELSE [f |-> IF method = "write" THEN EmptyFile ELSE r.f, err |-> exception]

createFault(r, method, exception) ==
  IF r.err # "" THEN r
  ELSE IF exception = "IOError" THEN [f |-> NoFile, err |-> "IOError"]
  ELSE [f |-> IF method = "write" THEN EmptyFile ELSE r.f, err |-> exception]

(***************************************************************************)
(* update_many, file_update_many and __archive_update_many; a point is a   *)
(* pair <<timestamp, value>>                                               *)
(***************************************************************************)
\* points.sort(key=lambda p: p[0], reverse=True): stable, newest first
RECURSIVE insertNewestFirst(_, _)
insertNewestFirst(x, s) ==
  IF s = <<>> THEN <<x>>
  ELSE IF x[1] > s[1][1] THEN <<x>> \o s
  ELSE <<s[1]>> \o insertNewestFirst(x, Tail(s))

RECURSIVE sortNewestFirst(_)
sortNewestFirst(s) ==
  IF s = <<>> THEN <<>>
  ELSE insertNewestFirst(s[Len(s)], sortNewestFirst(SubSeq(s, 1, Len(s) - 1)))

Reverse(s) == [i \in 1..Len(s) |-> s[Len(s) + 1 - i]]

\* packStrings keeping the first, not the last, of several points of one interval
RECURSIVE packStringsKeepFirst(_, _, _, _, _, _)
packStringsKeepFirst(alignedPoints, i, step, previousInterval, currentString, packedStrings) ==
  LET startInterval == previousInterval - (step * (Len(currentString) - 1))
  IN IF i > Len(alignedPoints)
     THEN (IF currentString # <<>> THEN Append(packedStrings, <<startInterval, currentString>>)
           ELSE packedStrings)
     ELSE IF i > 1 /\ alignedPoints[i][1] = alignedPoints[i - 1][1]
     THEN packStringsKeepFirst(alignedPoints, i + 1, step, previousInterval, currentString,
                               packedStrings)
     ELSE LET interval == alignedPoints[i][1]
              point == [ts |-> interval, val |-> alignedPoints[i][2]]
          IN IF previousInterval = 0 \/ interval = previousInterval + step
             THEN packStringsKeepFirst(alignedPoints, i + 1, step, interval,
                                       Append(currentString, point), packedStrings)
             ELSE packStringsKeepFirst(alignedPoints, i + 1, step, interval, <<point>>,
                                       Append(packedStrings, <<startInterval, currentString>>))

\* the packedStrings loop: one <<startInterval, points>> per run of
\* consecutive intervals, the last of several points of one interval kept;
\* previousInterval 0 stands for None (both are false in the test)
RECURSIVE packStrings(_, _, _, _, _, _)
packStrings(alignedPoints, i, step, previousInterval, currentString, packedStrings) ==
  LET startInterval == previousInterval - (step * (Len(currentString) - 1))
  IN IF i > Len(alignedPoints)
     THEN (IF currentString # <<>> THEN Append(packedStrings, <<startInterval, currentString>>)
           ELSE packedStrings)
     ELSE IF i + 1 <= Len(alignedPoints) /\ alignedPoints[i][1] = alignedPoints[i + 1][1]
     THEN packStrings(alignedPoints, i + 1, step, previousInterval, currentString, packedStrings)
     ELSE LET interval == alignedPoints[i][1]
              point == [ts |-> interval, val |-> alignedPoints[i][2]]
          IN IF previousInterval = 0 \/ interval = previousInterval + step
             THEN packStrings(alignedPoints, i + 1, step, interval,
                              Append(currentString, point), packedStrings)
             ELSE packStrings(alignedPoints, i + 1, step, interval, <<point>>,
                              Append(packedStrings, <<startInterval, currentString>>))

\* the wrap-aware write of one packed string
writeString(f, archive, baseInterval, interval, packedString) ==
  LET myOffset == RingOffset(archive, baseInterval, interval)
      archiveEnd == archive.offset + archive.size
      bytesBeyond == (myOffset + Len(packedString) * pointSize) - archiveEnd
      pointsBeyond == bytesBeyond \div pointSize
      n == Len(packedString)
  IN IF bytesBeyond > 0
     THEN WriteAt(WriteAt(f, myOffset, SubSeq(packedString, 1, n - pointsBeyond)),
                  archive.offset, SubSeq(packedString, n - pointsBeyond + 1, n))
     ELSE WriteAt(f, myOffset, packedString)

RECURSIVE writeStrings(_, _, _, _)
writeStrings(f, archive, baseInterval, packedStrings) ==
  IF packedStrings = <<>> THEN f
  ELSE writeStrings(writeString(f, archive, baseInterval, packedStrings[1][1],
                                packedStrings[1][2]),
                    archive, baseInterval, Tail(packedStrings))

\* set(lowerIntervals) as the sequence the for loop walks: Python fixes no
\* order for a set, the model takes the ascending or the descending one
RECURSIVE sortedSet(_, _)
sortedSet(S, ascending) ==
  IF S = {} THEN <<>>
  ELSE LET x == CHOOSE y \in S : \A z \in S : IF ascending THEN y <= z ELSE y >= z
       IN <<x>> \o sortedSet(S \ {x}, ascending)

\* the loop over uniqueLowerIntervals: every interval is propagated
RECURSIVE propagateEach(_, _, _, _, _, _)
RECURSIVE propagateNext(_, _, _, _, _, _)
\* propagateNext with propagateFurther following the last interval only
propagateNextLast(header, intervals, higher, lower, propagateFurther, p) ==
  propagateEach(p.f, header, Tail(intervals), higher, lower, p.ok)

propagateNext(header, intervals, higher, lower, propagateFurther, p) ==
  propagateEach(p.f, header, Tail(intervals), higher, lower, propagateFurther \/ p.ok)

propagateEach(f, header, intervals, higher, lower, propagateFurther) ==
  IF intervals = <<>> THEN [f |-> f, further |-> propagateFurther]
  ELSE propagateNext(header, intervals, higher, lower, propagateFurther,
                     propagate(f, header, intervals[1], higher, lower))

\* the loop over lowerArchives of __archive_update_many
RECURSIVE cascadeMany(_, _, _, _, _)
RECURSIVE cascadeManyStep(_, _, _, _, _)
cascadeManyStep(header, alignedPoints, i, ascending, r) ==
  IF ~r.further THEN r.f
  ELSE cascadeMany(r.f, header, alignedPoints, i + 1, ascending)

cascadeMany(f, header, alignedPoints, i, ascending) ==
  IF i >= Len(header.archives) THEN f
  ELSE LET lower == header.archives[i + 1]
           uniqueLowerIntervals ==
             {alignedPoints[j][1] - (alignedPoints[j][1] % lower.secondsPerPoint) :
                j \in 1..Len(alignedPoints)}
       IN cascadeManyStep(header, alignedPoints, i, ascending,
                          propagateEach(f, header, sortedSet(uniqueLowerIntervals, ascending),
                                        header.archives[i], lower, FALSE))

\* the writes of __archive_update_many and the propagation after them
writeAligned(f, header, i, alignedPoints, packedStrings, ascending) ==
  LET archive == header.archives[i]
      baseInterval0 == ReadAt(f, archive.offset, pointSize)[1].ts
      baseInterval == IF baseInterval0 = 0 THEN packedStrings[1][1] ELSE baseInterval0
  IN cascadeMany(writeStrings(f, archive, baseInterval, packedStrings),
                 header, alignedPoints, i, ascending)

alignPoints(points, step) ==
  [j \in 1..Len(points) |-> <<points[j][1] - (points[j][1] % step), points[j][2]>>]

\* __archive_update_many(fh, header, archive, points): archive is the i-th
archive_update_many(f, header, i, points, ascending) ==
  writeAligned(f, header, i, alignPoints(points, header.archives[i].secondsPerPoint),
               packStrings(alignPoints(points, header.archives[i].secondsPerPoint), 1,
                           header.archives[i].secondsPerPoint, 0, <<>>, <<>>),
               ascending)

\* the loop of file_update_many over the points, newest first; k is the
\* current archive (0: the archives are exhausted)
RECURSIVE updateManyLoop(_, _, _, _, _, _, _)
updateManyLoop(f, header, points, k, currentPoints, t, ascending) ==
  IF points = <<>>
  THEN (IF k # 0 /\ currentPoints # <<>>
        THEN archive_update_many(f, header, k, Reverse(currentPoints), ascending)
        ELSE f)
  ELSE IF k = 0 THEN f
  ELSE LET age == t - points[1][1]
       IN IF header.archives[k].retention < age
          THEN LET g == IF currentPoints # <<>>
                        THEN archive_update_many(f, header, k, Reverse(currentPoints), ascending)
                        ELSE f
               IN updateManyLoop(g, header, points,
                                 IF k < Len(header.archives) THEN k + 1 ELSE 0,
                                 <<>>, t, ascending)
          ELSE updateManyLoop(f, header, Tail(points), k,
                              Append(currentPoints, points[1]), t, ascending)

\* update_many(path, points, now) on an existing database
update_many(f, points, t, ascending) ==
  IF points = <<>> THEN f
  ELSE updateManyLoop(f, readHeader(f), sortNewestFirst(points), 1, <<>>, t, ascending)

(***************************************************************************)
(* file_fetch and __archive_fetch                                          *)
(***************************************************************************)
\* the archiveToSelect argument: none given, or the precision in seconds that
\* parseRetentionDef returns for it
NoSelector == -1

\* archive_fetch without the extension of a zero-length range
archive_fetchNoExtend(f, archive, fromTime, untilTime) ==
  LET step == archive.secondsPerPoint
      fromInterval == (fromTime - (fromTime % step)) + step
      untilInterval == (untilTime - (untilTime % step)) + step
      baseInterval == ReadAt(f, archive.offset, pointSize)[1].ts
      fromOffset == RingOffset(archive, baseInterval, fromInterval)
      untilOffset == RingOffset(archive, baseInterval, untilInterval)
      seriesString == ReadRange(f, archive, fromOffset, untilOffset)
  IN [fromInterval |-> fromInterval, untilInterval |-> untilInterval, step |-> step,
      values |-> IF baseInterval = 0
                 THEN [i \in 1..((untilInterval - fromInterval) \div step) |-> None]
                 ELSE Decode(seriesString, fromInterval, step)]

archive_fetch(f, archive, fromTime, untilTime) ==
  LET step == archive.secondsPerPoint
      fromInterval == (fromTime - (fromTime % step)) + step
      untilInterval0 == (untilTime - (untilTime % step)) + step
      untilInterval == IF fromInterval = untilInterval0 THEN untilInterval0 + step
                       ELSE untilInterval0
      baseInterval == ReadAt(f, archive.offset, pointSize)[1].ts
      fromOffset == RingOffset(archive, baseInterval, fromInterval)
      untilOffset == RingOffset(archive, baseInterval, untilInterval)
      seriesString == ReadRange(f, archive, fromOffset, untilOffset)
  IN [fromInterval |-> fromInterval, untilInterval |-> untilInterval, step |-> step,
      values |-> IF baseInterval = 0
                 THEN [i \in 1..((untilInterval - fromInterval) \div step) |-> None]
                 ELSE Decode(seriesString, fromInterval, step)]

\* the archive the loop of file_fetch ends on (0: None)
selectArchive(header, diff, archiveToSelect) ==
  LET n == Len(header.archives)
      bySelector == {i \in 1..n : header.archives[i].secondsPerPoint = archiveToSelect}
      byRetention == {i \in 1..n : header.archives[i].retention >= diff}
  IN IF archiveToSelect # NoSelector /\ archiveToSelect # 0
     THEN (IF bySelector = {} THEN 0 ELSE CHOOSE i \in bySelector : \A j \in bySelector : i <= j)
     ELSE (IF byRetention = {} THEN n ELSE CHOOSE i \in byRetention : \A j \in byRetention : i <= j)

NoData(kind) ==
  [kind |-> kind, archive |-> 0, fromInterval |-> 0, untilInterval |-> 0, step |-> 0,
   values |-> <<>>]

\* file_fetch testing for a range in the future before the order of the bounds
file_fetchFutureFirst(f, fromTime, untilTime, t, archiveToSelect) ==
  LET header == readHeader(f)
      oldestTime == t - header.maxRetention
      from1 == IF fromTime < oldestTime THEN oldestTime ELSE fromTime
      until1 == IF untilTime > t THEN t ELSE untilTime
      diff == t - from1
      i == selectArchive(header, diff, archiveToSelect)
  IN IF fromTime > t THEN NoData("None")
     ELSE IF fromTime > untilTime THEN NoData("InvalidTimeInterval")
     ELSE IF untilTime < oldestTime THEN NoData("None")
     ELSE IF i = 0 THEN NoData("ValueError")
     ELSE [kind |-> "data", archive |-> i]
            @@ archive_fetch(f, header.archives[i], from1, until1)

file_fetch(f, fromTime, untilTime, t, archiveToSelect) ==
  LET header == readHeader(f)
      oldestTime == t - header.maxRetention
      from1 == IF fromTime < oldestTime THEN oldestTime ELSE fromTime
      until1 == IF untilTime > t THEN t ELSE untilTime
      diff == t - from1
      i == selectArchive(header, diff, archiveToSelect)
  IN IF fromTime > untilTime THEN NoData("InvalidTimeInterval")
     ELSE IF fromTime > t THEN NoData("None")
     ELSE IF untilTime < oldestTime THEN NoData("None")
     ELSE IF i = 0 THEN NoData("ValueError")
     ELSE [kind |-> "data", archive |-> i]
            @@ archive_fetch(f, header.archives[i], from1, until1)

(***************************************************************************)
(* file_merge and file_diff; NoTime stands for an omitted time argument    *)
(***************************************************************************)
NoTime == -1

\* izip(xrange(start, end, archive_step), values) without the None values
pointsToWriteAll(r) ==
  LET n == Min((r.untilInterval - r.fromInterval) \div r.step, Len(r.values))
  IN [j \in 1..n |-> <<r.fromInterval + (j - 1) * r.step,
                       IF r.values[j] = None THEN float(0) ELSE r.values[j]>>]

pointsToWrite(r) ==
  LET n == Min((r.untilInterval - r.fromInterval) \div r.step, Len(r.values))
      pairs == [j \in 1..n |-> <<r.fromInterval + (j - 1) * r.step, r.values[j]>>]
  IN SelectSeq(pairs, LAMBDA q : q[2] # None)

\* the loop over the archives (in ascending retention order, which is the
\* header order of a created file); i is the archive at hand
RECURSIVE mergeLoop(_, _, _, _, _, _, _, _)
RECURSIVE mergeArchive(_, _, _, _, _, _, _, _, _)
mergeArchive(fFrom, fTo, headerTo, i, fromTime, untilTime, t, ascending, points) ==
  IF points = <<>>
  THEN mergeLoop(fFrom, fTo, headerTo, i + 1, fromTime, untilTime, t, ascending)
  ELSE mergeLoop(fFrom, archive_update_many(fTo, headerTo, i, points, ascending),
                 headerTo, i + 1, fromTime, untilTime, t, ascending)

mergeLoop(fFrom, fTo, headerTo, i, fromTime, untilTime, t, ascending) ==
  IF i > Len(headerTo.archives) THEN fTo
  ELSE LET archive == headerTo.archives[i]
           archiveFrom == IF fromTime < t - archive.retention THEN t - archive.retention
                          ELSE fromTime
       IN IF untilTime < t - archive.retention
          THEN mergeLoop(fFrom, fTo, headerTo, i + 1, fromTime, untilTime, t, ascending)
          ELSE mergeArchive(fFrom, fTo, headerTo, i, fromTime, untilTime, t, ascending,
                            pointsToWrite(archive_fetch(fFrom, archive, archiveFrom,
                                                        untilTime)))

\* the same loop from the archive of the longest retention down
RECURSIVE mergeLoopDown(_, _, _, _, _, _, _, _)
mergeArchiveDown(fFrom, fTo, headerTo, i, fromTime, untilTime, t, ascending, points) ==
  IF points = <<>>
  THEN mergeLoopDown(fFrom, fTo, headerTo, i - 1, fromTime, untilTime, t, ascending)
  ELSE mergeLoopDown(fFrom, archive_update_many(fTo, headerTo, i, points, ascending),
                     headerTo, i - 1, fromTime, untilTime, t, ascending)

mergeLoopDown(fFrom, fTo, headerTo, i, fromTime, untilTime, t, ascending) ==
  IF i < 1 THEN fTo
  ELSE LET archive == headerTo.archives[i]
           archiveFrom == IF fromTime < t - archive.retention THEN t - archive.retention
                          ELSE fromTime
       IN IF untilTime < t - archive.retention
          THEN mergeLoopDown(fFrom, fTo, headerTo, i - 1, fromTime, untilTime, t, ascending)
          ELSE mergeArchiveDown(fFrom, fTo, headerTo, i, fromTime, untilTime, t, ascending,
                                pointsToWrite(archive_fetch(fFrom, archive, archiveFrom,
                                                            untilTime)))

file_mergeCoarseFirst(fFrom, fTo, time_from, time_to, t, ascending) ==
  LET headerFrom == readHeader(fFrom)
      headerTo == readHeader(fTo)
      untilTime == IF time_to # NoTime THEN time_to ELSE t
      fromTime == IF time_from # NoTime THEN time_from ELSE 0
  IN IF headerFrom.archives # headerTo.archives
     THEN [f |-> fTo, err |-> "NotImplementedError"]
     ELSE IF untilTime < fromTime THEN [f |-> fTo, err |-> "ValueError"]
     ELSE [f |-> mergeLoopDown(fFrom, fTo, headerTo, Len(headerTo.archives), fromTime,
                               untilTime, t, ascending),
           err |-> ""]

\* file_merge without the sanity check of the window
file_mergeAnyWindow(fFrom, fTo, time_from, time_to, t, ascending) ==
  LET headerFrom == readHeader(fFrom)
      headerTo == readHeader(fTo)
      untilTime == IF time_to # NoTime THEN time_to ELSE t
      fromTime == IF time_from # NoTime THEN time_from ELSE 0
  IN IF headerFrom.archives # headerTo.archives
     THEN [f |-> fTo, err |-> "NotImplementedError"]
     ELSE [f |-> mergeLoop(fFrom, fTo, headerTo, 1, fromTime, untilTime, t, ascending),
           err |-> ""]

file_merge(fFrom, fTo, time_from, time_to, t, ascending) ==
  LET headerFrom == readHeader(fFrom)
      headerTo == readHeader(fTo)
      untilTime == IF time_to # NoTime THEN time_to ELSE t
      fromTime == IF time_from # NoTime THEN time_from ELSE 0
  IN IF headerFrom.archives # headerTo.archives
     THEN [f |-> fTo, err |-> "NotImplementedError"]
     ELSE IF untilTime < fromTime THEN [f |-> fTo, err |-> "ValueError"]
     ELSE [f |-> mergeLoop(fFrom, fTo, headerTo, 1, fromTime, untilTime, t, ascending),
           err |-> ""]

\* the loop of file_diff; an index past the end of a value list is an IndexError
RECURSIVE diffLoop(_, _, _, _, _, _, _, _)
RECURSIVE diffArchive(_, _, _, _, _, _, _, _, _, _)
\* diffArchive with the two filters of ignore_empty exchanged
diffArchiveSwapped(fFrom, fTo, header, i, ignore_empty, untilTime, t, archive_diffs, a, b) ==
  LET startTime == t - header.archives[i].retention
      start == Min(a.fromInterval, b.fromInterval)
      end == Max(a.untilInterval, b.untilInterval)
      archive_step == Min(a.step, b.step)
      n == (end - start) \div archive_step
      all == [j \in 1..n |-> <<(j - 1) * archive_step + start, a.values[j], b.values[j]>>]
      points == IF ignore_empty
                THEN SelectSeq(all, LAMBDA q : q[2] # None \/ q[3] # None)
                ELSE SelectSeq(all, LAMBDA q : q[2] # None /\ q[3] # None)
      diffs == SelectSeq(points, LAMBDA q : q[2] # q[3])
  IN IF n > Len(a.values) \/ n > Len(b.values)
     THEN [err |-> "IndexError", diffs |-> archive_diffs]
     ELSE diffLoop(fFrom, fTo, header, i + 1, ignore_empty, Min(startTime, untilTime), t,
                   Append(archive_diffs,
                          [archive |-> i - 1, diffs |-> diffs, total |-> Len(points)]))

diffArchive(fFrom, fTo, header, i, ignore_empty, untilTime, t, archive_diffs, a, b) ==
  LET startTime == t - header.archives[i].retention
      start == Min(a.fromInterval, b.fromInterval)
      end == Max(a.untilInterval, b.untilInterval)
      archive_step == Min(a.step, b.step)
      n == (end - start) \div archive_step
      all == [j \in 1..n |-> <<(j - 1) * archive_step + start, a.values[j], b.values[j]>>]
      points == IF ignore_empty
                THEN SelectSeq(all, LAMBDA q : q[2] # None /\ q[3] # None)
                ELSE SelectSeq(all, LAMBDA q : q[2] # None \/ q[3] # None)
      diffs == SelectSeq(points, LAMBDA q : q[2] # q[3])
  IN IF n > Len(a.values) \/ n > Len(b.values)
     THEN [err |-> "IndexError", diffs |-> archive_diffs]
     ELSE diffLoop(fFrom, fTo, header, i + 1, ignore_empty, Min(startTime, untilTime), t,
                   Append(archive_diffs,
                          [archive |-> i - 1, diffs |-> diffs, total |-> Len(points)]))

diffLoop(fFrom, fTo, header, i, ignore_empty, untilTime, t, archive_diffs) ==
  IF i > Len(header.archives) THEN [err |-> "", diffs |-> archive_diffs]
  ELSE diffArchive(fFrom, fTo, header, i, ignore_empty, untilTime, t, archive_diffs,
                   archive_fetch(fFrom, header.archives[i],
                                 t - header.archives[i].retention, untilTime),
                   archive_fetch(fTo, header.archives[i],
                                 t - header.archives[i].retention, untilTime))

file_diff(fFrom, fTo, ignore_empty, until_time, t) ==
  LET headerFrom == readHeader(fFrom)
      headerTo == readHeader(fTo)
      untilTime == IF until_time # NoTime /\ until_time # 0 THEN until_time ELSE t
  IN IF headerFrom.archives # headerTo.archives
     THEN [err |-> "NotImplementedError", diffs |-> <<>>]
     ELSE diffLoop(fFrom, fTo, headerFrom, 1, ignore_empty, untilTime, t, <<>>)

\* no header: what info returns for a path it cannot open, and the lookup
\* of a path the header cache has no entry for
NoHeader ==
  [aggregationMethod |-> "None", maxRetention |-> 0, xFilesFactor |-> None,
   archives |-> <<>>]

\* __readHeader(fh) with the header cache: with CACHE_HEADERS on, the entry
\* of fh.name is returned when there is one, and the header parsed from the
\* file is stored as the entry
readHeaderCached(f, cacheOn, cached) ==
  IF cacheOn /\ cached # NoHeader
  THEN [header |-> cached, err |-> "", cached |-> cached]
  ELSE IF headerError(f) # ""
  THEN [header |-> NoHeader, err |-> headerError(f), cached |-> cached]
  ELSE [header |-> readHeader(f), err |-> "",
        cached |-> IF cacheOn THEN readHeader(f) ELSE cached]

(***************************************************************************)
(* __setAggregation(path, aggregationMethod, xFilesFactor): "None" and     *)
(* None stand for the omitted arguments                                    *)
(***************************************************************************)
setAggregationReadNew(f, info, aggregationMethod, xFilesFactor) ==
  [old_agm |-> IF aggregationMethod = "None" THEN info.aggregationMethod
               ELSE aggregationMethod,
   old_xff |-> IF xFilesFactor = None THEN info.xFilesFactor ELSE packFloat(xFilesFactor)]
    @@ writeHeaderMetadata(f,
         IF aggregationMethod = "None" THEN info.aggregationMethod ELSE aggregationMethod,
         info.maxRetention,
         IF xFilesFactor = None THEN info.xFilesFactor ELSE xFilesFactor,
         Len(info.archives))

setAggregationRead(f, info, aggregationMethod, xFilesFactor) ==
  [old_agm |-> info.aggregationMethod, old_xff |-> info.xFilesFactor]
    @@ writeHeaderMetadata(f,
         IF aggregationMethod = "None" THEN info.aggregationMethod ELSE aggregationMethod,
         info.maxRetention,
         IF xFilesFactor = None THEN info.xFilesFactor ELSE xFilesFactor,
         Len(info.archives))

\* the entry of the header cache after __setAggregation: deleted when the
\* metadata were written and CACHE_HEADERS is on
setAggregationEvict(w, cacheOn, cached) ==
  w @@ [cached |-> IF w.err = "" /\ cacheOn THEN NoHeader ELSE cached]

setAggregation(f, cacheOn, cached, aggregationMethod, xFilesFactor) ==
  IF ~Exists(f)
  THEN [old_agm |-> "None", old_xff |-> None, f |-> f, err |-> "IOError",
        cached |-> cached]
  ELSE LET h == readHeaderCached(f, cacheOn, cached)
       IN IF h.err # ""
          THEN [old_agm |-> "None", old_xff |-> None, f |-> f, err |-> h.err,
                cached |-> h.cached]
          ELSE setAggregationEvict(
                 setAggregationRead(f, h.header, aggregationMethod, xFilesFactor),
                 cacheOn, h.cached)

(***************************************************************************)
(* info(path): None (err "" and no header) when the path cannot be opened  *)
(***************************************************************************)

\* cached is __headerCache.get(path), NoHeader without an entry; the result
\* carries the entry the call leaves behind
info(f, cacheOn, cached) ==
  IF ~Exists(f) THEN [header |-> NoHeader, err |-> "", cached |-> cached]
  ELSE readHeaderCached(f, cacheOn, cached)

(***************************************************************************)
(* The state machine: a file system of two paths, a clock, and the result  *)
(* the last call handed to its caller                                      *)
(***************************************************************************)
Paths == {"a", "b"}

\* the processes that call the library at the same time, and a process
\* that is between two calls
Procs == {"p", "q"}
NoOperation == [op |-> "none", pc |-> "idle"]
\* whisper-resize.py not running: no path.tmp and no path.bak
NoScript == [pc |-> "none", tmp |-> NoFile, bak |-> NoFile]

Idle == [op |-> "idle"]

\* no injected failure: every write, flush and close of the call succeeds
NoFault == [method |-> "", exception |-> ""]

\* a database: created without error, with a header __readHeader accepts
IsDatabase(f) ==
  Exists(f) /\ f.archiveCount > 0 /\ f.size >= BodyStart(f) /\ headerError(f) = ""

\* the timestamps a caller tries: the retention window and one step on each side
TimesOf(f) == (now - f.maxRetention - 1)..(now + 1)

\* time.time() moves on
Tick ==
  /\ res = Idle
  /\ now < StartTime + MaxTicks
  /\ now' = now + 1
  /\ UNCHANGED <<files, res, calls, ambient>>

\* the caller takes the result of the last call
Return ==
  /\ res # Idle
  /\ res' = Idle
  /\ UNCHANGED <<files, now, calls, ambient>>

\* whisper.create(path, archiveList, xFilesFactor, aggregationMethod, sparse, useFallocate)
\* (both failures of its first lines raise InvalidConfiguration before the
\* path is opened: a file at the path, and a list validateArchiveList refuses)
CreateOver(path, lists, xffs, methods, policies) ==
  /\ res = Idle
  /\ \E archiveList \in lists, xFilesFactor \in xffs, aggregationMethod \in methods,
        policy \in policies :
       \E r \in {create(archiveList, xFilesFactor, aggregationMethod,
                        policy = "sparse", policy = "fallocate", TRUE)} :
         /\ res' = [op |-> "create", path |-> path, archiveList |-> archiveList,
                    xFilesFactor |-> xFilesFactor,
                    aggregationMethod |-> aggregationMethod,
                    fault |-> NoFault, err |-> r.err]
         /\ files' = [files EXCEPT ![path] = r.f]
  /\ UNCHANGED <<now, calls, ambient>>

Create(path, lists, xffs, methods, policies) ==
  /\ res = Idle
  /\ IF Exists(files[path])
     THEN /\ res' = [op |-> "create", path |-> path, err |-> "InvalidConfiguration"]
          /\ UNCHANGED files
     ELSE \E archiveList \in lists, xFilesFactor \in xffs, aggregationMethod \in methods,
             policy \in policies :
            \E r \in {create(archiveList, xFilesFactor, aggregationMethod,
                             policy = "sparse", policy = "fallocate", TRUE)} :
              /\ res' = [op |-> "create", path |-> path, archiveList |-> archiveList,
                         xFilesFactor |-> xFilesFactor,
                         aggregationMethod |-> aggregationMethod,
                         fault |-> NoFault, err |-> r.err]
              /\ files' = [files EXCEPT ![path] = r.f]
  /\ UNCHANGED <<now, calls, ambient>>

\* whisper.create when a write or the close of the new file raises
CreateFails(path, lists, xffs, methods, faults) ==
  /\ res = Idle
  /\ ~Exists(files[path])
  /\ \E archiveList \in lists, xFilesFactor \in xffs, aggregationMethod \in methods,
        fault \in faults :
       /\ validateArchiveList(sortByKey(archiveList, 1))
       /\ \E r \in {createFault(create(archiveList, xFilesFactor, aggregationMethod,
                                        FALSE, FALSE, FALSE),
                                 fault.method, fault.exception)} :
            /\ res' = [op |-> "create", path |-> path, archiveList |-> archiveList,
                       xFilesFactor |-> xFilesFactor,
                       aggregationMethod |-> aggregationMethod,
                       fault |-> fault, err |-> r.err]
            /\ files' = [files EXCEPT ![path] = r.f]
  /\ UNCHANGED <<now, calls, ambient>>

\* whisper.validateArchiveList(archiveList)
Validate(lists) ==
  /\ res = Idle
  /\ \E archiveList \in lists :
       res' = [op |-> "validateArchiveList", archiveList |-> archiveList,
               err |-> IF validateArchiveList(sortByKey(archiveList, 1)) THEN ""
                       ELSE "InvalidConfiguration"]
  /\ UNCHANGED <<files, now, calls, ambient>>

\* whisper.info(path)
Info(path) ==
  /\ res = Idle
  /\ \E r \in {info(files[path], CACHE_HEADERS, headerCache[path])} :
       /\ res' = [op |-> "info", path |-> path, header |-> r.header, err |-> r.err]
       /\ headerCache' = [headerCache EXCEPT ![path] = r.cached]
  /\ UNCHANGED <<files, now, calls, LOCK, CACHE_HEADERS, procs, script>>

\* something other than the library damages a database: the file is cut
\* inside its header, or a metadata field is overwritten
Corrupt(path, sizes, types, xffs) ==
  /\ res = Idle
  /\ IsDatabase(files[path])
  /\ headerError(files[path]) = ""
  /\ \/ \E n \in sizes :
          /\ n < BodyStart(files[path])
          /\ files' = [files EXCEPT ![path].size = n, ![path].body = <<>>]
     \/ \E v \in types : files' = [files EXCEPT ![path].aggregationType = v]
     \/ \E v \in xffs : files' = [files EXCEPT ![path].xff = v]
  /\ UNCHANGED <<now, res, calls, ambient>>

\* os.unlink(path) by the owner of the file
Unlink(path) ==
  /\ res = Idle
  /\ Exists(files[path])
  /\ files' = [files EXCEPT ![path] = NoFile]
  /\ UNCHANGED <<now, res, calls, ambient>>

\* whisper.update(path, value, timestamp, now)
Update(path, times, values) ==
  /\ res = Idle
  /\ IsDatabase(files[path])
  /\ \E value \in values, timestamp \in times :
       \E r \in {file_update(files[path], float(value), timestamp, now)} :
          /\ files' = [files EXCEPT ![path] = r.f]
          /\ res' = [op |-> "update", path |-> path, value |-> float(value),
                     timestamp |-> timestamp, err |-> r.err, target |-> r.target,
                     interval |-> r.interval, props |-> r.props]
  /\ calls' = calls + 1
  /\ UNCHANGED <<now, ambient>>

\* whisper.fetch(path, fromTime, untilTime, now, archiveToSelect)
Fetch(path, times, selectors) ==
  /\ res = Idle
  /\ IsDatabase(files[path])
  /\ \E fromTime \in times, untilTime \in times, archiveToSelect \in selectors :
       res' = [op |-> "fetch", path |-> path, fromTime |-> fromTime,
               untilTime |-> untilTime, archiveToSelect |-> archiveToSelect,
               out |-> file_fetch(files[path], fromTime, untilTime, now, archiveToSelect)]
  /\ UNCHANGED <<files, now, calls, ambient>>

\* the batches a caller hands to update_many: 1..MaxBatch points
RECURSIVE SeqsUpTo(_, _)
SeqsUpTo(S, n) ==
  IF n = 0 THEN {<<>>}
  ELSE LET shorter == SeqsUpTo(S, n - 1)
       IN shorter \cup {Append(q, x) : q \in shorter, x \in S}

Batches(times, values) ==
  SeqsUpTo({<<t, float(v)>> : t \in times, v \in values}, MaxBatch) \ {<<>>}

\* whisper.update_many(path, points, now)
UpdateMany(path, batches) ==
  /\ res = Idle
  /\ IsDatabase(files[path])
  /\ \E points \in batches, ascending \in BOOLEAN :
       /\ files' = [files EXCEPT ![path] = update_many(files[path], points, now, ascending)]
       /\ res' = [op |-> "update_many", path |-> path, points |-> points]
  /\ calls' = calls + 1
  /\ UNCHANGED <<now, ambient>>

\* whisper.merge(path_from, path_to, time_from, time_to, now)
Merge(path_from, path_to, times) ==
  /\ res = Idle
  /\ IsDatabase(files[path_from])
  /\ IsDatabase(files[path_to])
  /\ \E time_from \in times, time_to \in times, ascending \in BOOLEAN :
       \E r \in {file_merge(files[path_from], files[path_to], time_from, time_to, now,
                             ascending)} :
          /\ files' = [files EXCEPT ![path_to] = r.f]
          /\ res' = [op |-> "merge", path |-> path_to, path_from |-> path_from,
                     time_from |-> time_from, time_to |-> time_to, err |-> r.err]
  /\ calls' = calls + 1
  /\ UNCHANGED <<now, ambient>>

\* whisper.diff(path_from, path_to, ignore_empty, until_time, now)
Diff(path_from, path_to, times) ==
  /\ res = Idle
  /\ IsDatabase(files[path_from])
  /\ IsDatabase(files[path_to])
  /\ \E ignore_empty \in BOOLEAN, until_time \in times :
       \E r \in {file_diff(files[path_from], files[path_to], ignore_empty, until_time, now)} :
          res' = [op |-> "diff", path |-> path_to, path_from |-> path_from,
                  ignore_empty |-> ignore_empty, until_time |-> until_time,
                  err |-> r.err, diffs |-> r.diffs]
  /\ UNCHANGED <<files, now, calls, ambient>>

\* whisper.setAggregationMethod(path, aggregationMethod, xFilesFactor)
SetAggregationMethod(path, methods, xffs) ==
  /\ res = Idle
  /\ \E aggregationMethod \in methods, xFilesFactor \in xffs :
       \E r \in {setAggregation(files[path], CACHE_HEADERS, headerCache[path],
                                 aggregationMethod, xFilesFactor)} :
          /\ files' = [files EXCEPT ![path] = r.f]
          /\ headerCache' = [headerCache EXCEPT ![path] = r.cached]
          /\ res' = [op |-> "setAggregationMethod", path |-> path,
                     aggregationMethod |-> aggregationMethod,
                     xFilesFactor |-> xFilesFactor, err |-> r.err, old |-> r.old_agm]
  /\ UNCHANGED <<now, calls, LOCK, CACHE_HEADERS, procs, script>>

\* whisper.setXFilesFactor(path, xFilesFactor)
SetXFilesFactor(path, xffs) ==
  /\ res = Idle
  /\ \E xFilesFactor \in xffs :
       \E r \in {setAggregation(files[path], CACHE_HEADERS, headerCache[path],
                                 "None", xFilesFactor)} :
          /\ files' = [files EXCEPT ![path] = r.f]
          /\ headerCache' = [headerCache EXCEPT ![path] = r.cached]
          /\ res' = [op |-> "setXFilesFactor", path |-> path,
                     xFilesFactor |-> xFilesFactor, err |-> r.err, old |-> r.old_xff]
  /\ UNCHANGED <<now, calls, LOCK, CACHE_HEADERS, procs, script>>

(***************************************************************************)
(* Spec: one database, single-point updates and fetches                    *)
(***************************************************************************)
CoreLists == {<<<<2, 3>>>>, <<<<2, 2>>, <<1, 2>>>>, <<<<1, 3>>>>}
CoreSelectors == {NoSelector, 0, 1, 2, 3}

Init ==
  /\ files = [p \in Paths |-> NoFile]
  /\ now = StartTime
  /\ res = Idle
  /\ calls = 0
  /\ LOCK = FALSE
  /\ CACHE_HEADERS = FALSE
  /\ headerCache = [p \in Paths |-> NoHeader]
  /\ procs = [p \in Procs |-> NoOperation]
  /\ script = NoScript

Next ==
  \/ Tick
  \/ Return
  \/ Create("a", CoreLists, {None}, {"None"}, {"zero"})
  \/ (calls < MaxCalls /\ Update("a", TimesOf(files["a"]), {1}))
  \/ Fetch("a", TimesOf(files["a"]), CoreSelectors)

Spec == Init /\ [][Next]_vars

(***************************************************************************)
(* SpecProp: one database of two or three archives under each of the eight *)
(* aggregation methods, single-point updates of two different values       *)
(***************************************************************************)
PropLists == {<<<<1, 2>>, <<2, 2>>>>, <<<<1, 3>>, <<2, 2>>>>, <<<<1, 2>>, <<2, 2>>, <<4, 2>>>>}
PropValues == {-2, 1}
\* the timestamps tried: the retention of the finest archive and one step more
PropTimes == (now - 3)..now

NextProp ==
  \/ Tick
  \/ Return
  \/ Create("a", PropLists, {None, float(1)}, aggregationMethods, {"zero"})
  \/ (calls < MaxCalls /\ Update("a", PropTimes, PropValues))

SpecProp == Init /\ [][NextProp]_vars

(***************************************************************************)
(* SpecGate: a writer fills the coarse interval of `now` with one run of   *)
(* consecutive fine points, in a database of ratio 60 or 5 created with    *)
(* the default xFilesFactor or with 0.6                                    *)
(***************************************************************************)
GateLists == {<<<<1, 60>>, <<60, 2>>>>, <<<<1, 5>>, <<5, 2>>>>}
GateXffs == {None, Rat(3, 5)}

\* the next timestamp of the run: any slot of the interval up to now to start
\* with, the slot after the newest one from there on
RunTimes(f) ==
  LET fine == f.archives[1]
      coarse == f.archives[2]
      T == now - (now % coarse.secondsPerPoint)
      slots == {u \in T..Min(now, T + coarse.secondsPerPoint - 1) :
                  u % fine.secondsPerPoint = 0}
      written == {u \in slots : \E i \in 1..fine.points :
                    f.body[SlotOf(f, fine.offset) + i - 1].ts = u}
      newest == CHOOSE u \in written : \A w \in written : w <= u
  IN IF written = {} THEN slots
     ELSE {u \in slots : u = newest + fine.secondsPerPoint}

NextGate ==
  \/ Tick
  \/ Return
  \/ Create("a", GateLists, GateXffs, {"None"}, {"zero"})
  \/ Update("a", RunTimes(files["a"]), {1})

SpecGate == Init /\ [][NextGate]_vars

(***************************************************************************)
(* SpecAll: two databases and every operation that opens one; created      *)
(* under each of the three allocation policies                             *)
(***************************************************************************)
AllLists == {<<<<1, 1>>>>, <<<<1, 2>>, <<2, 2>>>>}
NearTimes == (now - 1)..(now + 1)

NextAll ==
  \/ Tick
  \/ Return
  \/ \E path \in Paths : Create(path, AllLists, {None}, {"None"}, {"zero", "sparse", "fallocate"})
  \/ (calls < MaxCalls /\ Update("a", NearTimes, {1}))
  \/ (calls < MaxCalls /\ UpdateMany("a", Batches(NearTimes, {1})))
  \/ (calls < MaxCalls /\ Merge("a", "b", {NoTime, now}))
  \/ Diff("a", "b", {NoTime, now})
  \/ SetAggregationMethod("b", {"sum"}, {None})
  \/ SetXFilesFactor("b", {float(0)})
  \/ Fetch("a", NearTimes, {NoSelector})

SpecAll == Init /\ [][NextAll]_vars

(***************************************************************************)
(* SpecMany: one database primed by single-point updates, then one bulk    *)
(* update whose points reach from beyond the retention into the future     *)
(***************************************************************************)
ManyLists == {<<<<1, 1>>>>, <<<<1, 2>>>>, <<<<1, 2>>, <<2, 2>>>>}
ManyValues == {1, 2}

NextMany ==
  \/ Tick
  \/ Return
  \/ Create("a", ManyLists, {None}, {"None"}, {"zero"})
  \/ (calls < MaxCalls - 1 /\ Update("a", {now - 1, now}, {3}))
  \/ (calls = MaxCalls - 1 /\ UpdateMany("a", Batches(TimesOf(files["a"]), ManyValues)))

SpecMany == Init /\ [][NextMany]_vars

(***************************************************************************)
(* SpecMerge: two databases, each with its own single-point updates, and   *)
(* merges of the first into the second, and diffs of the two, over several *)
(* windows                                                                 *)
(***************************************************************************)
MergeLists == {<<<<1, 1>>>>, <<<<1, 2>>, <<2, 2>>>>}

NextMerge ==
  \/ Tick
  \/ Return
  \/ \E path \in Paths : Create(path, MergeLists, {None}, {"None"}, {"zero"})
  \/ (calls < MaxCalls /\ Update("a", TimesOf(files["a"]), {1, 3}))
  \/ (calls < MaxCalls /\ Update("b", TimesOf(files["b"]), {5}))
  \/ (calls <= MaxCalls /\ Merge("a", "b", {NoTime, now - 1, now + 1}))
  \/ Diff("a", "b", {NoTime, now - 1, now + 1})

SpecMerge == Init /\ [][NextMerge]_vars

(***************************************************************************)
(* SpecHeader: the header operations on one path, over archive lists in    *)
(* any order and arguments inside and outside their ranges, with failures  *)
(* of the file object during create and damage done to the file            *)
(***************************************************************************)
HeaderLists ==
  {<<>>, <<<<1, 2>>>>, <<<<2, 2>>, <<1, 2>>>>, <<<<1, 60>>, <<60, 60>>>>,
   <<<<4, 2>>, <<1, 4>>, <<2, 3>>>>, <<<<1, 2>>, <<1, 3>>>>, <<<<3, 2>>, <<2, 2>>>>,
   <<<<1, 4>>, <<2, 2>>>>, <<<<1, 1>>, <<2, 1>>>>}
HeaderXffs ==
  {None, float(0), Rat(1, 2), Rat(3, 5), float(1), Rat(-1, 2), float(2),
   NaN, Infinity, NotAFloat}
HeaderMethods == {"None", "derp"} \cup aggregationMethods
HeaderFaults ==
  [method : {"write", "close"}, exception : {"IOError", "Exception"}]

NextHeader ==
  \/ Return
  \/ Create("a", HeaderLists, HeaderXffs, HeaderMethods, {"zero"})
  \/ CreateFails("a", HeaderLists, {None, Rat(3, 5), float(2)}, {"None", "max", "derp"},
                 HeaderFaults)
  \/ Info("a")
  \/ SetAggregationMethod("a", HeaderMethods \ {"None"}, HeaderXffs)
  \/ SetXFilesFactor("a", HeaderXffs \ {None})
  \/ Corrupt("a", {8, metadataSize, metadataSize + archiveInfoSize}, {0, 9},
             {float(2), Rat(-1, 2)})
  \/ Unlink("a")

SpecHeader == Init /\ [][NextHeader]_vars

(***************************************************************************)
(* SpecValidate: validateArchiveList on every list of up to MaxArchives    *)
(* archives, in every order                                                *)
(***************************************************************************)
ArchiveLists ==
  UNION {[1..n -> (1..MaxStep) \X (1..MaxPoints)] : n \in 0..MaxArchives}

NextValidate ==
  \/ Return
  \/ Validate(ArchiveLists)

SpecValidate == Init /\ [][NextValidate]_vars

(***************************************************************************)
(* The aggregator alone: aggregate called with a vector of known values    *)
(* and either no neighbors vector or the vector the known values were      *)
(* taken from                                                              *)
(***************************************************************************)
MaxNeighbors == 3
AggregateValues == {float(-2), float(-1), float(1), float(2)}
AggregateMethods == aggregationMethods \cup {"median"}
NeighborVectors ==
  {s \in SeqsUpTo(AggregateValues \cup {None}, MaxNeighbors) :
     \E i \in 1..Len(s) : s[i] # None}

Aggregate(methods, vectors) ==
  /\ res = Idle
  /\ \E aggregationMethod \in methods, v \in vectors, given \in BOOLEAN :
       \E neighborValues \in {IF given THEN v ELSE NoNeighbors} :
         \E knownValues \in {SelectKnown(v)} :
           \E err \in {aggregateError(aggregationMethod, neighborValues)} :
             res' = [op |-> "aggregate", aggregationMethod |-> aggregationMethod,
                     knownValues |-> knownValues, neighborValues |-> neighborValues,
                     err |-> err,
                     value |-> IF err = "" THEN aggregate(aggregationMethod, knownValues,
                                                          neighborValues)
                               ELSE None]
  /\ UNCHANGED <<files, now, calls, ambient>>

NextAggregate ==
  \/ Return
  \/ Aggregate(AggregateMethods, NeighborVectors)
SpecAggregate == Init /\ [][NextAggregate]_vars

(***************************************************************************)
(* Two processes on the same files, each call cut where another process    *)
(* can run: after open, after flock (where the code has one), after        *)
(* __readHeader, and for update after the read of the base interval, after *)
(* the write of the point, and between the read of the neighbours and the  *)
(* write of the aggregate. close releases the lock. create runs while no   *)
(* call is under way.                                                      *)
(***************************************************************************)
\* takesLock with file_update left out: update opens and writes unlocked
takesLockSetters(op) ==
  op \in {"create", "update_many", "setAggregationMethod", "setXFilesFactor"}

\* the calls whose code has `if LOCK: fcntl.flock(fh.fileno(), fcntl.LOCK_EX)`
takesLock(op) ==
  op \in {"create", "update", "update_many", "setAggregationMethod", "setXFilesFactor"}

LockLists == {<<<<1, 2>>, <<2, 2>>>>}
LockOps == {"update", "update_many", "fetch", "info", "merge", "setAggregationMethod"}
\* the timestamps of an update: one second ago, now, and one outside the retention
LockTimes == {now - 5, now - 1, now}
\* the files a call opens
Opened(op) == IF op = "merge" THEN {"a", "b"} ELSE {"a"}
NoneUnderWay == \A p \in Procs : procs[p] = NoOperation
\* the call of process p is between its open and its close
Running(p) == procs[p].pc \notin {"idle", "done"}
OtherThan(p) == CHOOSE q \in Procs : q # p
\* flock with LOCK_SH: the lock is granted whoever holds it
LockFreeShared(p, op) == TRUE

\* flock blocks while another open file holds the lock
LockFree(p, op) ==
  \A q \in Procs \ {p} : procs[q].pc # "idle" => ~procs[q].locked

\* whisper.LOCK = value, between calls
SetLock ==
  /\ res = Idle
  /\ NoneUnderWay
  /\ LOCK' = ~LOCK
  /\ UNCHANGED <<files, now, res, calls, CACHE_HEADERS, headerCache, procs, script>>

\* an update that begins while the update of the other process, which began
\* with no call under way, is still under way: the two run together
Pairs(p, op) ==
  /\ op = "update"
  /\ Running(OtherThan(p)) /\ procs[OtherThan(p)].op = "update"
  /\ procs[OtherThan(p)].raced = "alone"

\* open(path); a call that locks goes on to flock. start is the file as the
\* call finds it. raced and origin follow two updates that run together
\* with no third call beside them: the first of them, the second, and the
\* file the first one found
Begin(p, ops) ==
  /\ res = Idle
  /\ procs[p] = NoOperation
  /\ calls < MaxCalls
  /\ calls' = calls + 1
  /\ \E op \in ops, timestamp \in (IF "update" \in ops THEN LockTimes ELSE {0}) :
       /\ \A path \in Opened(op) : IsDatabase(files[path])
       /\ op # "update" => timestamp = now
       /\ procs' =
            [q \in Procs |->
               IF q = p
               THEN [op |-> op,
                     pc |-> IF LOCK /\ takesLock(op) THEN "waiting" ELSE "opened",
                     locked |-> FALSE, header |-> NoHeader,
                     timestamp |-> timestamp, value |-> None, method |-> "None",
                     base |-> 0, neighbors |-> <<>>,
                     start |-> IF takesLock(op) THEN files["a"] ELSE NoFile,
                     raced |-> IF Pairs(p, op) THEN "second"
                               ELSE IF op = "update" /\ ~Running(OtherThan(p)) THEN "alone"
                               ELSE "no",
                     origin |-> IF Pairs(p, op) THEN procs[OtherThan(p)].origin
                                ELSE IF op = "update" /\ ~Running(OtherThan(p)) THEN files["a"]
                                ELSE NoFile]
               ELSE IF Pairs(p, op) THEN [procs[q] EXCEPT !.raced = "first"]
               ELSE IF Running(q) THEN [procs[q] EXCEPT !.raced = "no", !.origin = NoFile]
               ELSE procs[q]]
  /\ UNCHANGED <<files, now, res, LOCK, CACHE_HEADERS, headerCache, script>>

\* fcntl.flock(fh.fileno(), fcntl.LOCK_EX) returns
Flock(p) ==
  /\ procs[p].pc = "waiting"
  /\ LockFree(p, procs[p].op)
  /\ procs' = [procs EXCEPT ![p].pc = "opened", ![p].locked = TRUE,
                            ![p].start = files["a"]]
  /\ UNCHANGED <<files, now, res, calls, LOCK, CACHE_HEADERS, headerCache, script>>

\* header = __readHeader(fh): the first read of the file
ReadHeader(p) ==
  /\ procs[p].pc = "opened"
  /\ procs' = [procs EXCEPT ![p].pc = "header", ![p].header = readHeader(files["a"])]
  /\ UNCHANGED <<files, now, res, calls, LOCK, CACHE_HEADERS, headerCache, script>>

\* update, or update_many with one point: file_update_many and
\* __archive_update_many read the base interval, write the point, and
\* propagate it with __propagate, as file_update does
Updating(p) == procs[p].op \in {"update", "update_many"}

\* the timestamp of an update is inside the retention of the header read
Covered(p) ==
  /\ now - procs[p].timestamp < procs[p].header.maxRetention
  /\ now - procs[p].timestamp >= 0

\* file_update raises TimestampNotCovered; the file is closed
UpdateRaises(p) ==
  /\ procs[p].op = "update" /\ procs[p].pc = "header"
  /\ ~Covered(p)
  /\ procs' = [procs EXCEPT ![p].pc = "done", ![p].locked = FALSE]
  /\ UNCHANGED <<files, now, res, calls, LOCK, CACHE_HEADERS, headerCache, script>>

\* file_update: the base interval of the highest-precision archive is read
UpdateReadBase(p) ==
  /\ Updating(p) /\ procs[p].pc = "header"
  /\ Covered(p)
  /\ procs' = [procs EXCEPT ![p].pc = "base",
                            ![p].base = ReadAt(files["a"], procs[p].header.archives[1].offset,
                                               pointSize)[1].ts]
  /\ UNCHANGED <<files, now, res, calls, LOCK, CACHE_HEADERS, headerCache, script>>

\* file_update: the point is written at the offset the base interval gives
UpdateWrite(p, values) ==
  /\ Updating(p) /\ procs[p].pc = "base"
  /\ \E value \in values :
       /\ files' = [files EXCEPT !["a"] =
                      WriteAt(files["a"],
                              IF procs[p].base = 0 THEN procs[p].header.archives[1].offset
                              ELSE RingOffset(procs[p].header.archives[1], procs[p].base,
                                              procs[p].timestamp),
                              <<[ts |-> procs[p].timestamp, val |-> float(value)]>>)]
       /\ procs' = [procs EXCEPT ![p].pc = "written", ![p].value = float(value)]
  /\ UNCHANGED <<now, res, calls, LOCK, CACHE_HEADERS, headerCache, script>>

\* __propagate: the points of the lower interval are read from the higher archive
UpdateReadNeighbors(p) ==
  /\ Updating(p) /\ procs[p].pc = "written"
  /\ procs' = [procs EXCEPT ![p].pc = "neighbors",
                            ![p].neighbors =
                               readNeighbors(files["a"], procs[p].timestamp,
                                             procs[p].header.archives[1],
                                             procs[p].header.archives[2])]
  /\ UNCHANGED <<files, now, res, calls, LOCK, CACHE_HEADERS, headerCache, script>>

\* __propagate: the aggregate of what was read is written; the file is closed
UpdateWriteAggregate(p) ==
  /\ Updating(p) /\ procs[p].pc = "neighbors"
  /\ files' = [files EXCEPT !["a"] =
                 propagateValues(files["a"], procs[p].header, procs[p].header.archives[2],
                                 procs[p].timestamp
                                   - (procs[p].timestamp
                                        % procs[p].header.archives[2].secondsPerPoint),
                                 procs[p].neighbors).f]
  /\ procs' = [procs EXCEPT ![p].pc = "done", ![p].locked = FALSE]
  /\ UNCHANGED <<now, res, calls, LOCK, CACHE_HEADERS, headerCache, script>>

\* file_fetch and info: the rest of the call reads; the file is closed
ReadRest(p) ==
  /\ procs[p].op \in {"fetch", "info"} /\ procs[p].pc = "header"
  /\ procs' = [procs EXCEPT ![p].pc = "done"]
  /\ UNCHANGED <<files, now, res, calls, LOCK, CACHE_HEADERS, headerCache, script>>

\* file_merge: the points of "a" are written to "b"; both files are closed
MergeWrite(p) ==
  /\ procs[p].op = "merge" /\ procs[p].pc = "header"
  /\ files' = [files EXCEPT !["b"] =
                 file_merge(files["a"], files["b"], NoTime, NoTime, now, TRUE).f]
  /\ procs' = [procs EXCEPT ![p].pc = "done"]
  /\ UNCHANGED <<now, res, calls, LOCK, CACHE_HEADERS, headerCache, script>>

\* __setAggregation: the metadata are written from the header that was read
SetAggregationWrite(p, methods) ==
  /\ procs[p].op = "setAggregationMethod" /\ procs[p].pc = "header"
  /\ \E aggregationMethod \in methods :
       /\ files' = [files EXCEPT !["a"] =
                      setAggregationRead(files["a"], procs[p].header, aggregationMethod,
                                         None).f]
       /\ procs' = [procs EXCEPT ![p].pc = "done", ![p].locked = FALSE,
                                 ![p].method = aggregationMethod]
  /\ UNCHANGED <<now, res, calls, LOCK, CACHE_HEADERS, headerCache, script>>

\* the call has returned or raised; the process is free for its next call
Finish(p) ==
  /\ procs[p].pc = "done"
  /\ procs' = [procs EXCEPT ![p] = NoOperation]
  /\ UNCHANGED <<files, now, res, calls, LOCK, CACHE_HEADERS, headerCache, script>>

\* the steps of a call that is under way
Step(p) ==
  \/ ReadHeader(p)
  \/ UpdateRaises(p)
  \/ UpdateReadBase(p)
  \/ UpdateWrite(p, {1, 3})
  \/ UpdateReadNeighbors(p)
  \/ UpdateWriteAggregate(p)
  \/ ReadRest(p)
  \/ MergeWrite(p)
  \/ SetAggregationWrite(p, {"sum", "max"})

NextLock ==
  \/ Return
  \/ \E path \in Paths :
       (NoneUnderWay /\ Create(path, LockLists, {None}, {"None"}, {"zero"}))
  \/ SetLock
  \/ \E p \in Procs : Begin(p, LockOps)
  \/ \E p \in Procs : Flock(p)
  \/ \E p \in Procs : Step(p)
  \/ \E p \in Procs : Finish(p)
SpecLock == Init /\ [][NextLock]_vars

(***************************************************************************)
(* The calls that lock, with whisper.LOCK set before the first of them.    *)
(* A call that is under way goes on running (its process is scheduled),    *)
(* and flock returns to a caller once the lock stays free; whether a call  *)
(* is made at all is left open.                                            *)
(***************************************************************************)
InitLocked ==
  /\ files = [p \in Paths |-> NoFile]
  /\ now = StartTime
  /\ res = Idle
  /\ calls = 0
  /\ LOCK = TRUE
  /\ CACHE_HEADERS = FALSE
  /\ headerCache = [p \in Paths |-> NoHeader]
  /\ procs = [p \in Procs |-> NoOperation]
  /\ script = NoScript

LockedOps == {"update", "update_many", "setAggregationMethod", "fetch"}

StepLocked(p) ==
  \/ ReadHeader(p)
  \/ UpdateRaises(p)
  \/ UpdateReadBase(p)
  \/ UpdateWrite(p, {1, 3})
  \/ UpdateReadNeighbors(p)
  \/ UpdateWriteAggregate(p)
  \/ ReadRest(p)
  \/ SetAggregationWrite(p, {"sum"})

NextLocked ==
  \/ Return
  \/ (NoneUnderWay /\ Create("a", LockLists, {None}, {"None"}, {"zero"}))
  \/ \E p \in Procs : Begin(p, LockedOps)
  \/ \E p \in Procs : Flock(p)
  \/ \E p \in Procs : StepLocked(p)
  \/ \E p \in Procs : Finish(p)

SpecLocked ==
  /\ InitLocked /\ [][NextLocked]_vars
  /\ \A p \in Procs : WF_vars(StepLocked(p)) /\ WF_vars(Flock(p))

(***************************************************************************)
(* The header cache: one path whose file is created, read, changed by the  *)
(* setters, removed and created again while CACHE_HEADERS is switched      *)
(***************************************************************************)
CacheLists == {<<<<1, 2>>>>, <<<<2, 2>>>>}

\* whisper.CACHE_HEADERS = value, between calls
SetCacheHeaders ==
  /\ res = Idle
  /\ CACHE_HEADERS' = ~CACHE_HEADERS
  /\ UNCHANGED <<files, now, res, calls, LOCK, headerCache, procs, script>>

NextCache ==
  \/ Return
  \/ SetCacheHeaders
  \/ Create("a", CacheLists, {None}, {"None"}, {"zero"})
  \/ Unlink("a")
  \/ Info("a")
  \/ SetAggregationMethod("a", {"sum"}, {None})
  \/ SetXFilesFactor("a", {float(1)})
SpecCache == Init /\ [][NextCache]_vars

(***************************************************************************)
(* whisper-resize.py path new_archives (without --newfile and without      *)
(* --aggregate) on path "a": script holds the position of the script, its  *)
(* data, and the files at path.tmp and path.bak                            *)
(***************************************************************************)
\* the datapoints of one fetched archive: zip(range(*timeinfo), values)
\* without the points whose value is None
RECURSIVE datapoints(_, _)
datapoints(data, j) ==
  IF j > Len(data.values) THEN <<>>
  ELSE (IF data.values[j] = None THEN <<>>
        ELSE <<<<data.fromInterval + (j - 1) * data.step, data.values[j]>>>>)
       \o datapoints(data, j + 1)

\* the loop `for archive in old_archives` of the migration: old_archives is
\* sorted by precision, lowest first, so the last archive comes first
RECURSIVE migrate(_, _, _, _, _)
migrate(newfile, data, k, t, ascending) ==
  IF k = 0 THEN newfile
  ELSE migrate(update_many(newfile, datapoints(data[k], 1), t, ascending),
               data, k - 1, t, ascending)

ResizeLists == {<<<<1, 2>>>>, <<<<1, 3>>>>, <<<<1, 2>>, <<2, 2>>>>}

\* info(path) and the fetch of every archive of the old file
ResizeFetch(lists) ==
  /\ res = Idle
  /\ script.pc = "none"
  /\ IsDatabase(files["a"])
  /\ \E new_archives \in lists :
       \E header \in {readHeader(files["a"])} :
         script' = [pc |-> "fetched", tmp |-> script.tmp, bak |-> script.bak,
                    new_archives |-> new_archives,
                    xff |-> header.xFilesFactor,
                    aggregationMethod |-> header.aggregationMethod,
                    data |-> [i \in 1..Len(header.archives) |->
                                file_fetch(files["a"],
                                           now - header.archives[i].retention
                                             + header.archives[i].secondsPerPoint,
                                           now, now, NoSelector)]]
  /\ UNCHANGED <<files, now, res, calls, LOCK, CACHE_HEADERS, headerCache, procs>>

\* a tmpfile left behind is unlinked; whisper.create(newfile, new_archives, ...)
ResizeCreate ==
  /\ script.pc = "fetched"
  /\ script' = [script EXCEPT !.pc = "created",
                              !.tmp = create(script.new_archives, script.xff,
                                             script.aggregationMethod,
                                             FALSE, FALSE, TRUE).f]
  /\ UNCHANGED <<files, now, res, calls, LOCK, CACHE_HEADERS, headerCache, procs>>

\* whisper.update_many(newfile, datapoints) for every old archive
ResizeMigrate ==
  /\ script.pc = "created"
  /\ \E ascending \in BOOLEAN :
       script' = [script EXCEPT !.pc = "migrated",
                                !.tmp = migrate(script.tmp, script.data, Len(script.data),
                                                now, ascending)]
  /\ UNCHANGED <<files, now, res, calls, LOCK, CACHE_HEADERS, headerCache, procs>>

\* os.rename(path, backup)
ResizeBackup ==
  /\ script.pc = "migrated"
  /\ script' = [script EXCEPT !.pc = "renamed", !.bak = files["a"]]
  /\ files' = [files EXCEPT !["a"] = NoFile]
  /\ UNCHANGED <<now, res, calls, LOCK, CACHE_HEADERS, headerCache, procs>>

\* os.rename(tmpfile, path) succeeds
ResizeSwitch ==
  /\ script.pc = "renamed"
  /\ files' = [files EXCEPT !["a"] = script.tmp]
  /\ script' = [script EXCEPT !.pc = "switched", !.tmp = NoFile]
  /\ UNCHANGED <<now, res, calls, LOCK, CACHE_HEADERS, headerCache, procs>>

\* os.rename(tmpfile, path) raises OSError
ResizeSwitchFails ==
  /\ script.pc = "renamed"
  /\ script' = [script EXCEPT !.pc = "failed"]
  /\ UNCHANGED <<files, now, res, calls, LOCK, CACHE_HEADERS, headerCache, procs>>

\* the except clause: os.rename(backup, path) and sys.exit(1)
ResizeRestore ==
  /\ script.pc = "failed"
  /\ files' = [files EXCEPT !["a"] = script.bak]
  /\ script' = [pc |-> "none", tmp |-> script.tmp, bak |-> NoFile]
  /\ UNCHANGED <<now, res, calls, LOCK, CACHE_HEADERS, headerCache, procs>>

\* the end of the script: with --nobackup the backup is unlinked
ResizeFinish ==
  /\ script.pc = "switched"
  /\ \E nobackup \in BOOLEAN :
       script' = [pc |-> "none", tmp |-> NoFile,
                  bak |-> IF nobackup THEN NoFile ELSE script.bak]
  /\ UNCHANGED <<files, now, res, calls, LOCK, CACHE_HEADERS, headerCache, procs>>

NextResize ==
  \/ Return
  \/ (script.pc = "none" /\ Create("a", ResizeLists, {None}, {"None"}, {"zero"}))
  \/ (calls < MaxCalls /\ Update("a", {now - 1, now}, {1, 3}))
  \/ Info("a")
  \/ ResizeFetch(ResizeLists)
  \/ ResizeCreate
  \/ ResizeMigrate
  \/ ResizeBackup
  \/ ResizeSwitch
  \/ ResizeSwitchFails
  \/ ResizeRestore
  \/ ResizeFinish
SpecResize == Init /\ [][NextResize]_vars

(***************************************************************************)
(* One database of two archives, single updates, and bulk updates of runs  *)
(* of consecutive seconds that begin in the past and end in the future     *)
(***************************************************************************)
MaxRun == 4
RingLists == {<<<<1, 2>>, <<2, 3>>>>}
\* the batches of n consecutive seconds from first on, all of the value 1
RECURSIVE run(_, _)
run(first, n) ==
  IF n = 0 THEN <<>> ELSE <<<<first, float(1)>>>> \o run(first + 1, n - 1)
Runs == {run(first, n) : first \in (now - 2)..now, n \in 1..MaxRun}

NextRing ==
  \/ Tick
  \/ Return
  \/ Create("a", RingLists, {None}, {"None"}, {"zero"})
  \/ (calls < MaxCalls /\ Update("a", {now - 1, now}, {3}))
  \/ (calls < MaxCalls /\ UpdateMany("a", Runs))
  \/ Fetch("a", (now - 3)..now, {NoSelector, 2})
SpecRing == Init /\ [][NextRing]_vars

(***************************************************************************)
(* Three archives under single and bulk updates: the cascades              *)
(***************************************************************************)
\* three fine slots to a middle slot, two middle slots to a coarse one
CascadeLists == {<<<<1, 6>>, <<3, 3>>, <<6, 2>>>>}
\* a single update goes to the finest archive or, aged 7, to the middle one
CascadeTimes == {now - 7, now - 1, now}

NextCascade ==
  \/ Tick
  \/ Return
  \/ Create("a", CascadeLists, {None}, {"None"}, {"zero"})
  \/ (calls < MaxCalls /\ Update("a", CascadeTimes, {3}))
  \/ (calls < MaxCalls - 1 /\ UpdateMany("a", Batches((now - 3)..now, {1})))

SpecCascade == Init /\ [][NextCascade]_vars

(***************************************************************************)
(* What the claims speak of, stated on the file and not through the ring   *)
(* arithmetic of the code                                                  *)
(***************************************************************************)
fileA == files["a"]
hdrA == readHeader(fileA)

\* the points in the byte extent of archive k, in file order
ArchiveBody(f, k) ==
  LET a == f.archives[k]
  IN [i \in 1..a.points |-> f.body[SlotOf(f, a.offset) + i - 1]]

\* archive k holds a point stamped t / the value stored with that stamp
HasPoint(f, k, t) ==
  \E i \in 1..f.archives[k].points : f.body[SlotOf(f, f.archives[k].offset) + i - 1].ts = t
StoredValue(f, k, t) ==
  LET first == SlotOf(f, f.archives[k].offset)
  IN f.body[CHOOSE j \in first..(first + f.archives[k].points - 1) : f.body[j].ts = t].val

AlignDown(t, step) == t - (t % step)

\* the request of a fetch after clamping to [now - maxRetention, now]
ClampedFrom(r) == Max(r.fromTime, now - hdrA.maxRetention)
ClampedUntil(r) == Min(r.untilTime, now)

UpdateDone == res.op = "update" /\ res.err = ""
FetchData == res.op = "fetch" /\ res.out.kind = "data"

C2_DenseLength ==
  FetchData =>
    Len(res.out.values) = (res.out.untilInterval - res.out.fromInterval) \div res.out.step

(***************************************************************************)
(* C3. Fixed file size: every database is 16 + 12 * N + 12 * sum(points)   *)
(* bytes long, right after create under each allocation policy and after   *)
(* every later call.                                                       *)
(***************************************************************************)
RECURSIVE TotalPoints(_)
TotalPoints(archives) ==
  IF archives = <<>> THEN 0 ELSE archives[1].points + TotalPoints(Tail(archives))

\* C3: the size of every database is the one fixed by its archive list
C3_FixedSize ==
  \A path \in Paths :
    IsDatabase(files[path]) =>
      files[path].size = 16 + 12 * Len(files[path].archives)
                            + 12 * TotalPoints(files[path].archives)

(***************************************************************************)
(* The fine slots of one coarse interval, read off the file                *)
(***************************************************************************)
StepOf(f, k) == f.archives[k].secondsPerPoint
Ratio(f, k) == StepOf(f, k + 1) \div StepOf(f, k)

\* the stamps of the slots of archive k inside the interval T of archive k + 1,
\* and those of them archive k holds a point for
FineSlots(f, k, T) == {T + j * StepOf(f, k) : j \in 0..(Ratio(f, k) - 1)}
KnownSlots(f, k, T) == {u \in FineSlots(f, k, T) : HasPoint(f, k, u)}

RECURSIVE Total(_, _, _)
Total(f, k, S) ==
  IF S = {} THEN float(0)
  ELSE LET u == CHOOSE x \in S : TRUE
       IN RAdd(StoredValue(f, k, u), Total(f, k, S \ {u}))

\* the aggregate of the known fine points of T, by the definition of each method
\* (of several values of the same magnitude the earliest one is the absmax/absmin)
Expected(method, f, k, T) ==
  LET S == KnownSlots(f, k, T)
      V(u) == StoredValue(f, k, u)
      A(u) == RAbs(StoredValue(f, k, u))
  IN CASE method = "average" -> RDiv(Total(f, k, S), Cardinality(S))
       [] method = "sum" -> Total(f, k, S)
       [] method = "last" -> V(CHOOSE u \in S : \A w \in S : w <= u)
       [] method = "max" -> V(CHOOSE u \in S : \A w \in S : ~RLess(V(u), V(w)))
       [] method = "min" -> V(CHOOSE u \in S : \A w \in S : ~RLess(V(w), V(u)))
       [] method = "avg_zero" -> RDiv(Total(f, k, S), Ratio(f, k))
       [] method = "absmax" ->
            V(CHOOSE u \in S : \A w \in S : RLess(A(w), A(u)) \/ (A(w) = A(u) /\ u <= w))
       [] method = "absmin" ->
            V(CHOOSE u \in S : \A w \in S : RLess(A(u), A(w)) \/ (A(w) = A(u) /\ u <= w))

\* archive k + 1 holds the point (T, aggregate of the known fine points of T)
CoarseHolds(f, k, T) ==
  /\ HasPoint(f, k + 1, T)
  /\ StoredValue(f, k + 1, T) = Expected(aggregationTypeToMethod[f.aggregationType], f, k, T)

\* the coarse interval of archive `lower` the last update propagated into
PropInterval(lower) == AlignDown(res.timestamp, StepOf(fileA, lower))

(***************************************************************************)
(* C4. Propagated value: right after an update, for every propagation it   *)
(* made from archive k into archive k + 1 for the coarse interval T of its *)
(* timestamp: if all K fine slots of T are known in archive k, archive     *)
(* k + 1 holds (T, aggregate of the K values) under the method of the      *)
(* file; and whenever the propagation fired, the coarse slot holds the     *)
(* aggregate of exactly the fine points then known in [T, T + step(k+1)).  *)
(***************************************************************************)
C4_Propagated ==
  UpdateDone =>
    /\ res.target < Len(fileA.archives) => Len(res.props) >= 1
    /\ \A i \in 1..Len(res.props) :
         LET k == res.props[i].lower - 1
             T == PropInterval(res.props[i].lower)
         IN /\ k = res.target + i - 1
            /\ KnownSlots(fileA, k, T) = FineSlots(fileA, k, T) => CoarseHolds(fileA, k, T)
            /\ res.props[i].ok => CoarseHolds(fileA, k, T)

\* a three-archive file under absmax: the update completed the pair (1, -2) in
\* archive 1, which went into archive 2 as -2 and from there into archive 3
C4_Witness ==
  /\ UpdateDone
  /\ hdrA.aggregationMethod = "absmax"
  /\ Len(fileA.archives) = 3
  /\ res.target = 1
  /\ Len(res.props) = 2
  /\ res.props[1].ok /\ res.props[2].ok
  /\ KnownSlots(fileA, 1, PropInterval(2)) = FineSlots(fileA, 1, PropInterval(2))
  /\ {StoredValue(fileA, 1, u) : u \in FineSlots(fileA, 1, PropInterval(2))}
       = {float(1), float(-2)}
  /\ StoredValue(fileA, 2, PropInterval(2)) = float(-2)
  /\ HasPoint(fileA, 3, PropInterval(3))

(***************************************************************************)
(* C5. xFilesFactor gate: a propagation into archive k + 1 for the coarse  *)
(* interval T reports true, and leaves (T, aggregate) in the coarse slot,  *)
(* if and only if at least one of the ratio fine slots of T holds a point  *)
(* stamped with its own interval and known / ratio >= the xFilesFactor of  *)
(* the header; otherwise it reports false and the coarse archive is as it  *)
(* was before the update.                                                  *)
(***************************************************************************)
GateOpen(f, k, T) ==
  LET known == Cardinality(KnownSlots(f, k, T))
  IN known >= 1 /\ known * f.xff.d >= f.xff.n * Ratio(f, k)

C5_GateState ==
  UpdateDone =>
    \A i \in 1..Len(res.props) :
       LET lower == res.props[i].lower
       IN /\ res.props[i].ok <=> GateOpen(fileA, lower - 1, PropInterval(lower))
          /\ res.props[i].ok => CoarseHolds(fileA, lower - 1, PropInterval(lower))

C5_GateFrame ==
  (res'.op = "update" /\ res'.err = "") =>
    \A i \in 1..Len(res'.props) :
       ~res'.props[i].ok =>
          ArchiveBody(files'["a"], res'.props[i].lower) = ArchiveBody(fileA, res'.props[i].lower)

\* C5: the gate decides every propagation, and a closed gate leaves the coarse
\* archive as it was
C5_Gate == [](C5_GateState) /\ [][C5_GateFrame]_vars

\* ratio 60 at the default xFilesFactor 0.5: the 30th known point propagates
C5_Witness ==
  /\ UpdateDone
  /\ Ratio(fileA, 1) = 60
  /\ fileA.xff = Rat(1, 2)
  /\ Cardinality(KnownSlots(fileA, 1, PropInterval(2))) = 30
  /\ res.props[1].ok
  /\ StoredValue(fileA, 2, PropInterval(2)) = float(1)

(***************************************************************************)
(* C6. xFilesFactor gate at 0.6: in a database created with xFilesFactor   *)
(* 0.6 and ratio 5, an update that leaves 2 of the 5 fine slots of a       *)
(* coarse interval known leaves the coarse slot unpropagated, and one that *)
(* leaves 3 of the 5 known propagates.                                     *)
(***************************************************************************)
C6_AsClaimed ==
  (/\ UpdateDone
   /\ res.target = 1
   /\ Ratio(fileA, 1) = 5
   /\ fileA.xff = F32(Rat(3, 5))) =>
    LET known == Cardinality(KnownSlots(fileA, 1, PropInterval(2)))
    IN /\ known = 2 => ~HasPoint(fileA, 2, PropInterval(2))
       /\ known = 3 => HasPoint(fileA, 2, PropInterval(2))

(***************************************************************************)
(* C7. update fails with TimestampNotCovered exactly when now - timestamp  *)
(* is negative or at least maxRetention, and then the file is unchanged;   *)
(* every other update finds a target archive and succeeds.                 *)
(***************************************************************************)
C7_RangeState ==
  res.op = "update" =>
    LET diff == now - res.timestamp
    IN IF diff < 0 \/ diff >= hdrA.maxRetention
       THEN res.err = "TimestampNotCovered"
       ELSE /\ res.err = ""
            /\ res.target \in 1..Len(hdrA.archives)
            /\ HasPoint(fileA, res.target,
                        AlignDown(res.timestamp, hdrA.archives[res.target].secondsPerPoint))

C7_RangeFrame == (res'.op = "update" /\ res'.err # "") => files' = files

\* C7: the outcome of every update is the one the range check gives, and a
\* failed update changes no file
C7_RangeCheck == [](C7_RangeState) /\ [][C7_RangeFrame]_vars

\* both failures and a success at the edge of the retention
C7_Witness ==
  /\ res.op = "update"
  /\ res.err = ""
  /\ now - res.timestamp = hdrA.maxRetention - 1

(***************************************************************************)
(* C8. Fetch interval alignment: for the clamped request, fromInterval and *)
(* untilInterval are the requested times aligned down to the step plus one *)
(* step, untilInterval one step more when the two coincide; the value      *)
(* vector is never empty.                                                  *)
(***************************************************************************)
C8_Alignment ==
  FetchData =>
    LET step == res.out.step
        fromInterval == AlignDown(ClampedFrom(res), step) + step
        untilInterval == AlignDown(ClampedUntil(res), step) + step
    IN /\ res.out.fromInterval = fromInterval
       /\ res.out.untilInterval =
            (IF fromInterval = untilInterval THEN untilInterval + step ELSE untilInterval)
       /\ Len(res.out.values) >= 1

\* fetch(from = now, until > now) on an empty 1-second archive: ((now+1, now+2, 1), [None])
C8_Witness ==
  /\ FetchData
  /\ res.fromTime = now
  /\ res.untilTime = now + 1
  /\ res.out.step = 1
  /\ <<res.out.fromInterval, res.out.untilInterval>> = <<now + 1, now + 2>>
  /\ res.out.values = <<None>>

(***************************************************************************)
(* C9. Fetch range outcomes: InvalidTimeInterval whenever fromTime >       *)
(* untilTime, before anything else; else None when fromTime > now or       *)
(* untilTime < now - maxRetention; else the request is clamped and data is *)
(* returned (a selector that names no archive raises ValueError at that    *)
(* point).  The file is unchanged in every case.                           *)
(***************************************************************************)
SelectorNamesArchive(sel) ==
  \E k \in 1..Len(hdrA.archives) : hdrA.archives[k].secondsPerPoint = sel

C9_OutcomeState ==
  res.op = "fetch" =>
    IF res.fromTime > res.untilTime THEN res.out.kind = "InvalidTimeInterval"
    ELSE IF res.fromTime > now \/ res.untilTime < now - hdrA.maxRetention
    THEN res.out.kind = "None"
    ELSE IF res.out.kind = "ValueError"
    THEN res.archiveToSelect # NoSelector /\ ~SelectorNamesArchive(res.archiveToSelect)
    ELSE /\ res.out.kind = "data"
         /\ res.out.fromInterval > ClampedFrom(res)
         /\ res.out.fromInterval <= ClampedFrom(res) + res.out.step
         /\ res.out.untilInterval > ClampedUntil(res)

C9_OutcomeFrame == res'.op = "fetch" => files' = files

\* C9: every fetch ends as its range says, and no fetch changes a file
C9_Outcomes == [](C9_OutcomeState) /\ [][C9_OutcomeFrame]_vars

\* a request reaching beyond both ends of the retention is clamped on both sides
C9_Witness ==
  /\ FetchData
  /\ res.fromTime < now - hdrA.maxRetention
  /\ res.untilTime > now
  /\ res.out.fromInterval > now - hdrA.maxRetention
  /\ \E i \in 1..Len(res.out.values) : res.out.values[i] # None

(***************************************************************************)
(* C10. Fetch archive selection: without a selector the finest archive     *)
(* whose retention covers now - fromTime (one always exists); with a       *)
(* selector the archive of that precision, and ValueError when there is    *)
(* none; the returned step is that archive's secondsPerPoint.              *)
(***************************************************************************)
C10_Selection ==
  (res.op = "fetch" /\ res.out.kind \in {"data", "ValueError"}) =>
    LET n == Len(hdrA.archives)
        diff == now - ClampedFrom(res)
    IN /\ res.archiveToSelect = NoSelector =>
            /\ res.out.kind = "data"
            /\ hdrA.archives[res.out.archive].retention >= diff
            /\ \A k \in 1..(res.out.archive - 1) : hdrA.archives[k].retention < diff
       /\ res.archiveToSelect # NoSelector =>
            IF SelectorNamesArchive(res.archiveToSelect)
            THEN /\ res.out.kind = "data"
                 /\ hdrA.archives[res.out.archive].secondsPerPoint = res.archiveToSelect
            ELSE res.out.kind = "ValueError"
       /\ res.out.kind = "data" =>
            res.out.step = hdrA.archives[res.out.archive].secondsPerPoint

(***************************************************************************)
(* The points of a bulk update, read off the call and the file             *)
(***************************************************************************)
\* the finest archive whose retention is not below the age (0: none)
FitArchive(f, age) ==
  LET fits == {k \in 1..Len(f.archives) :
                 f.archives[k].secondsPerPoint * f.archives[k].points >= age}
  IN IF fits = {} THEN 0 ELSE CHOOSE k \in fits : \A j \in fits : k <= j

\* the positions of the batch whose points go to archive k, and the interval
\* of archive k the point at position j aligns to
BatchFor(f, points, t, k) == {j \in 1..Len(points) : FitArchive(f, t - points[j][1]) = k}
IntervalOf(f, points, k, j) == AlignDown(points[j][1], StepOf(f, k))

\* the intervals of archive k the batch writes, and the most recent of them:
\* those within one lap of the ring below the newest
BatchIntervals(f, points, t, k) ==
  {IntervalOf(f, points, k, j) : j \in BatchFor(f, points, t, k)}
RecentIntervals(f, points, t, k) ==
  {u \in BatchIntervals(f, points, t, k) :
     \A w \in BatchIntervals(f, points, t, k) :
        w - u < f.archives[k].secondsPerPoint * f.archives[k].points}

BulkDone == res.op = "update_many"

(***************************************************************************)
(* C11. Retention drop in the bulk path: after update_many, every point    *)
(* of the batch that fits an archive is held by the finest archive whose   *)
(* retention is not below its age; of a batch longer than the archive, the *)
(* most recent points are the ones held.                                   *)
(***************************************************************************)
C11_AsClaimed ==
  BulkDone =>
    \A k \in 1..Len(fileA.archives) :
       \A u \in RecentIntervals(fileA, res.points, now, k) : HasPoint(fileA, k, u)

(***************************************************************************)
(* C12. Bulk duplicate policy: when several points of one update_many call *)
(* align to the same interval of their target archive and the archive      *)
(* holds a point for that interval afterwards, its value is that of the    *)
(* point with the greatest raw timestamp among them and, among points of   *)
(* that timestamp, of the first one in the caller's sequence.              *)
(***************************************************************************)
\* the positions of the batch that align to the interval of position j
SameSlot(f, points, t, k, j) ==
  {i \in BatchFor(f, points, t, k) : IntervalOf(f, points, k, i) = IntervalOf(f, points, k, j)}

\* the position whose value the slot keeps
Kept(points, group) ==
  CHOOSE i \in group :
    \A h \in group : points[h][1] < points[i][1] \/ (points[h][1] = points[i][1] /\ i <= h)

CreateDone == res.op = "create" /\ res.err = "" /\ res.fault = NoFault
XffGiven == IF res.xFilesFactor = None THEN Rat(1, 2) ELSE res.xFilesFactor
MethodGiven == IF res.aggregationMethod = "None" THEN "average" ELSE res.aggregationMethod
\* a number of [0, 1]
InUnit(x) == x.d > 0 /\ 0 <= x.n /\ x.n <= x.d
\* y is a 32-bit float within half a unit in the last place of x
NearestFloat(y, x) ==
  /\ y.d > 0 /\ Pow2(30) % y.d = 0 /\ y.n < Pow2(24)
  /\ Abs(y.n * x.d - x.n * y.d) * Pow2(24) <= x.n * y.d
\* the archives of header h are those of `list`, ascending by precision, laid
\* out one after the other behind the header
HeaderLayout(h, list) ==
  /\ Len(h.archives) = Len(list)
  /\ \A i \in 1..Len(list) :
       /\ \E j \in 1..Len(list) :
            list[j] = <<h.archives[i].secondsPerPoint, h.archives[i].points>>
       /\ \E j \in 1..Len(list) :
            list[i] = <<h.archives[j].secondsPerPoint, h.archives[j].points>>
       /\ i < Len(list) => h.archives[i].secondsPerPoint < h.archives[i + 1].secondsPerPoint
       /\ h.archives[i].retention = h.archives[i].secondsPerPoint * h.archives[i].points
       /\ h.archives[i].size = 12 * h.archives[i].points
       /\ h.archives[i].offset =
            16 + 12 * Len(list) + 12 * TotalPoints(SubSeq(h.archives, 1, i - 1))
       /\ h.maxRetention >= list[i][1] * list[i][2]
  /\ \E i \in 1..Len(list) : h.maxRetention = list[i][1] * list[i][2]
  /\ list = <<<<1, 60>>, <<60, 60>>>> =>
       h.archives[1].offset = 40 /\ h.archives[2].offset = 760

\* C13: after create succeeded with an xFilesFactor of [0, 1] (0.5 when
\* omitted), info returns the aggregation method given ('average' when
\* omitted), the xFilesFactor rounded to the nearest 32-bit float, and the
\* archives of the list in ascending secondsPerPoint order with retention,
\* size and offsets as the layout fixes them, maxRetention being the largest
\* retention
C13_HeaderRoundTrip ==
  (CreateDone /\ InUnit(XffGiven)) =>
    /\ info(files[res.path], FALSE, NoHeader).err = ""
    /\ info(files[res.path], FALSE, NoHeader).header.aggregationMethod = MethodGiven
    /\ NearestFloat(info(files[res.path], FALSE, NoHeader).header.xFilesFactor, XffGiven)
    /\ XffGiven \in {float(0), Rat(1, 2), float(1)} =>
         info(files[res.path], FALSE, NoHeader).header.xFilesFactor = XffGiven
    /\ HeaderLayout(info(files[res.path], FALSE, NoHeader).header, res.archiveList)

\* a list of three archives given out of order with xFilesFactor 0.6 and 'max':
\* info has them sorted at offsets 52, 100 and 136, and xFilesFactor
\* 5033165 / 2^23
C13_Witness ==
  /\ CreateDone
  /\ res.archiveList = <<<<4, 2>>, <<1, 4>>, <<2, 3>>>>
  /\ res.xFilesFactor = Rat(3, 5)
  /\ res.aggregationMethod = "max"
  /\ info(files[res.path], FALSE, NoHeader).header.aggregationMethod = "max"
  /\ info(files[res.path], FALSE, NoHeader).header.maxRetention = 8
  /\ info(files[res.path], FALSE, NoHeader).header.xFilesFactor = Rat(5033165, 8388608)
  /\ [i \in 1..3 |-> info(files[res.path], FALSE, NoHeader).header.archives[i].offset] = <<52, 100, 136>>
  /\ [i \in 1..3 |-> info(files[res.path], FALSE, NoHeader).header.archives[i].secondsPerPoint] = <<1, 2, 4>>

\* C13 as written: info returns the very xFilesFactor create was given
C13_AsClaimed ==
  (CreateDone /\ InUnit(XffGiven)) =>
    /\ info(files[res.path], FALSE, NoHeader).err = ""
    /\ info(files[res.path], FALSE, NoHeader).header.aggregationMethod = MethodGiven
    /\ info(files[res.path], FALSE, NoHeader).header.xFilesFactor = XffGiven
    /\ HeaderLayout(info(files[res.path], FALSE, NoHeader).header, res.archiveList)

(***************************************************************************)
(* The archive list rules, stated on every pair of archives of the list    *)
(* as given                                                                *)
(***************************************************************************)
\* archive j comes right after archive i when the list is sorted by precision
NextInOrder(list, i, j) ==
  /\ list[i][1] < list[j][1]
  /\ ~\E k \in 1..Len(list) : list[i][1] < list[k][1] /\ list[k][1] < list[j][1]

AllPairsValid(list) ==
  /\ list # <<>>
  /\ \A i, j \in 1..Len(list) :
       /\ i # j => list[i][1] # list[j][1]
       /\ list[i][1] < list[j][1] =>
            /\ list[j][1] % list[i][1] = 0
            /\ list[j][1] * list[j][2] > list[i][1] * list[i][2]
       /\ NextInOrder(list, i, j) => list[i][2] >= list[j][1] \div list[i][1]

C15_NoClobber ==
  [][(/\ res = Idle
      /\ res'.op = "create"
      /\ Exists(files[res'.path]) \/ ~AllPairsValid(res'.archiveList))
       => (res'.err = "InvalidConfiguration" /\ files' = files)]_vars

\* create was refused on a path that holds a database of three archives
C15_Witness ==
  /\ res.op = "create"
  /\ res.err = "InvalidConfiguration"
  /\ IsDatabase(files[res.path])
  /\ Len(files[res.path].archives) = 3

\* the eight aggregation methods, by name
MethodNames == {"average", "sum", "last", "max", "min", "avg_zero", "absmax", "absmin"}

\* C16: when a write or the close of the file create has opened raises
\* IOError, the partial file is unlinked and the IOError reaches the caller;
\* when it raises another exception, that exception reaches the caller and
\* the file stays
C16_CreateFailure ==
  (/\ res.op = "create"
   /\ res.err # "InvalidConfiguration"
   /\ res.fault # NoFault
   /\ InUnit(XffGiven)
   /\ MethodGiven \in MethodNames)
    => IF res.fault.exception = "IOError"
       THEN res.err = "IOError" /\ ~Exists(files[res.path])
       ELSE res.err = res.fault.exception /\ Exists(files[res.path])

\* the close of a fully written file raised IOError: no file is left
C16_Witness ==
  /\ res.op = "create"
  /\ res.err = "IOError"
  /\ res.fault = [method |-> "close", exception |-> "IOError"]
  /\ res.archiveList = <<<<2, 2>>, <<1, 2>>>>
  /\ files[res.path] = NoFile

(***************************************************************************)
(* The mutators: a step of setAggregationMethod or setXFilesFactor that    *)
(* returned without error, with an xFilesFactor of [0, 1] if one was given *)
(***************************************************************************)
MutatorStep(op) ==
  /\ res = Idle
  /\ res'.op = op
  /\ res'.err = ""
  /\ res'.xFilesFactor # None => InUnit(res'.xFilesFactor)

\* maxRetention, the archive descriptors and every byte of the body are as
\* they were
MutatorFrame(path) ==
  /\ info(files'[path], FALSE, NoHeader).err = ""
  /\ info(files'[path], FALSE, NoHeader).header.maxRetention = info(files[path], FALSE, NoHeader).header.maxRetention
  /\ info(files'[path], FALSE, NoHeader).header.archives = info(files[path], FALSE, NoHeader).header.archives
  /\ files'[path].body = files[path].body
  /\ files'[path].size = files[path].size
  /\ \A p \in Paths \ {path} : files'[p] = files[p]

\* what the mutators return, and what they leave of the other field
MutatorReturns ==
  /\ MutatorStep("setAggregationMethod") =>
       /\ res'.old = info(files[res'.path], FALSE, NoHeader).header.aggregationMethod
       /\ info(files'[res'.path], FALSE, NoHeader).header.aggregationMethod = res'.aggregationMethod
       /\ res'.xFilesFactor = None =>
            info(files'[res'.path], FALSE, NoHeader).header.xFilesFactor
              = info(files[res'.path], FALSE, NoHeader).header.xFilesFactor
       /\ MutatorFrame(res'.path)
  /\ MutatorStep("setXFilesFactor") =>
       /\ res'.old = info(files[res'.path], FALSE, NoHeader).header.xFilesFactor
       /\ info(files'[res'.path], FALSE, NoHeader).header.aggregationMethod
            = info(files[res'.path], FALSE, NoHeader).header.aggregationMethod
       /\ MutatorFrame(res'.path)

\* C17: setAggregationMethod(p, m) returns the previous method, after which
\* info reports m, with xFilesFactor unchanged unless one was passed;
\* setXFilesFactor(p, x) returns the previous xFilesFactor and leaves the
\* method; an xFilesFactor passed to either is reported by info rounded to
\* the nearest 32-bit float; maxRetention, the archive descriptors and the
\* body are unchanged
C17_Mutators ==
  [][/\ MutatorReturns
     /\ (MutatorStep("setAggregationMethod") \/ MutatorStep("setXFilesFactor")) =>
          (res'.xFilesFactor # None =>
             NearestFloat(info(files'[res'.path], FALSE, NoHeader).header.xFilesFactor,
                          res'.xFilesFactor))]_vars

\* setXFilesFactor(p, 0.6) on a database of method 'max' and xFilesFactor 0.5
\* returned 0.5; info reports 5033165 / 2^23 and still 'max'
C17_Witness ==
  /\ res.op = "setXFilesFactor"
  /\ res.err = ""
  /\ res.xFilesFactor = Rat(3, 5)
  /\ res.old = Rat(1, 2)
  /\ info(files[res.path], FALSE, NoHeader).header.xFilesFactor = Rat(5033165, 8388608)
  /\ info(files[res.path], FALSE, NoHeader).header.aggregationMethod = "max"
  /\ Len(files[res.path].body) = 120

\* C17 as written: info reports the very xFilesFactor that was passed
C17_AsClaimed ==
  [][/\ MutatorReturns
     /\ (MutatorStep("setAggregationMethod") \/ MutatorStep("setXFilesFactor")) =>
          (res'.xFilesFactor # None =>
             info(files'[res'.path], FALSE, NoHeader).header.xFilesFactor = res'.xFilesFactor)]_vars

(***************************************************************************)
(* Metadata writes: the calls that reached __writeHeaderMetadata           *)
(***************************************************************************)
MetadataWritten ==
  \/ res.op = "create" /\ res.err # "InvalidConfiguration" /\ res.fault = NoFault
  \/ res.op \in {"setAggregationMethod", "setXFilesFactor"}
       /\ res.err \notin {"CorruptWhisperFile", "IOError"}
\* the method the call names, if it names one
MethodNamed == IF res.op = "setXFilesFactor" THEN "None" ELSE res.aggregationMethod
\* not a finite number of [0, 1]
BadXff(x) == x # None /\ ~InUnit(x)

\* C18 as written: a metadata write with an unknown method fails with
\* InvalidAggregationMethod, one with an xFilesFactor that is not a finite
\* number of [0, 1] fails with InvalidXFilesFactor, and a file whose metadata
\* was written passes the validation of its header on read
C18_AsClaimed ==
  MetadataWritten =>
    /\ MethodNamed \notin MethodNames \cup {"None"} => res.err = "InvalidAggregationMethod"
    /\ (MethodNamed \in MethodNames \cup {"None"} /\ BadXff(res.xFilesFactor)) =>
         res.err = "InvalidXFilesFactor"
    /\ res.err = "" => headerError(files[res.path]) = ""

\* a file whose header is cut short or holds a field out of range
Damaged(f) ==
  /\ Exists(f)
  /\ \/ f.size < 16
     \/ f.aggregationType \notin 1..8
     \/ ~InUnit(f.xff)
     \/ f.size < 16 + 12 * f.archiveCount

MergeDone == res.op = "merge" /\ res.err = ""
srcFile == files[res.path_from]
dstFile == files[res.path]
MergeFrom == IF res.time_from = NoTime THEN 0 ELSE res.time_from
MergeUntil == IF res.time_to = NoTime THEN now ELSE res.time_to
Retention(f, k) == f.archives[k].secondsPerPoint * f.archives[k].points
\* the archive is merged unless the window ends before its retention begins
Merged(f, k) == MergeUntil >= now - Retention(f, k)
\* the per-archive fetch of the source over the window of archive k
SourceFetch(k) ==
  archive_fetch(srcFile, readHeader(srcFile).archives[k],
                Max(MergeFrom, now - Retention(srcFile, k)), MergeUntil)
\* the points (t, v) with a value among those the fetch returns
FetchedPoints(r) ==
  {<<r.fromInterval + (j - 1) * r.step, r.values[j]>> :
     j \in {i \in 1..Len(r.values) :
              r.values[i] # None /\ r.fromInterval + (i - 1) * r.step < r.untilInterval}}

\* C20: after a merge between files of one archive configuration, for every
\* merged archive and every point (t, v) with a value that the per-archive
\* fetch of the source returns over the merge window, the destination holds
\* v at the slot of t in that archive; a value merged into a coarser archive
\* is the source's, not one propagated from the finer archive
C20_Merged ==
  MergeDone =>
    \A k \in 1..Len(srcFile.archives) :
       Merged(srcFile, k) =>
         \A q \in FetchedPoints(SourceFetch(k)) :
            /\ HasPoint(dstFile, k, q[1])
            /\ StoredValue(dstFile, k, q[1]) = q[2]

\* the source holds 1 at an odd second c + 1 and, propagated from it, 1 at
\* the 2-second interval c; the destination held 5 at second c: after the
\* merge it holds 5 and 1 in the 1-second archive and, above them, the
\* source's 1 and not their average 3
C20_Witness ==
  /\ MergeDone
  /\ Len(srcFile.archives) = 2
  /\ \E c \in (now - 4)..now :
       /\ c % 2 = 0
       /\ <<c + 1, float(1)>> \in FetchedPoints(SourceFetch(1))
       /\ <<c, float(1)>> \in FetchedPoints(SourceFetch(2))
       /\ HasPoint(dstFile, 1, c) /\ StoredValue(dstFile, 1, c) = float(5)
       /\ HasPoint(dstFile, 1, c + 1) /\ StoredValue(dstFile, 1, c + 1) = float(1)
       /\ HasPoint(dstFile, 2, c) /\ StoredValue(dstFile, 2, c) = float(1)

\* C21: merge and diff of two files whose archive configurations (offset,
\* secondsPerPoint and points of every archive) are not identical fail with
\* NotImplementedError; merge of two files of one configuration fails with
\* ValueError when time_to < time_from; neither file is modified in these
\* cases
C21_Precondition ==
  [][(res = Idle /\ res'.op \in {"merge", "diff"}) =>
       /\ files[res'.path_from].archives # files[res'.path].archives =>
            (res'.err = "NotImplementedError" /\ files' = files)
       /\ (/\ res'.op = "merge"
           /\ files[res'.path_from].archives = files[res'.path].archives
           /\ res'.time_from # NoTime /\ res'.time_to # NoTime
           /\ res'.time_to < res'.time_from) =>
            (res'.err = "ValueError" /\ files' = files)]_vars

\* a merge with time_to < time_from was refused although the source holds a
\* point the destination lacks
C21_Witness ==
  /\ res.op = "merge"
  /\ res.err = "ValueError"
  /\ res.time_from # NoTime /\ res.time_to # NoTime /\ res.time_to < res.time_from
  /\ HasPoint(files[res.path_from], 1, now)
  /\ ~HasPoint(files[res.path], 1, now)

\* a file none of whose slots holds a point
HoldsNoPoints(f) == \A i \in 1..Len(f.body) : f.body[i].ts = 0

\* C22: a merge from a source that holds no points into a destination of the
\* same archive configuration, over the default window or one that does not
\* end before it begins, completes without error and leaves every byte of
\* the destination (and of every file) as it was
C22_EmptySource ==
  [][(/\ res = Idle
      /\ res'.op = "merge"
      /\ files[res'.path_from].archives = files[res'.path].archives
      /\ HoldsNoPoints(files[res'.path_from])
      /\ (IF res'.time_to = NoTime THEN now ELSE res'.time_to)
           >= (IF res'.time_from = NoTime THEN 0 ELSE res'.time_from))
       => (res'.err = "" /\ files' = files)]_vars

\* a merge over the default window from a source without points into a
\* destination of two archives that holds a point at `now`
C22_Witness ==
  /\ res.op = "merge"
  /\ res.err = ""
  /\ res.time_from = NoTime /\ res.time_to = NoTime
  /\ HoldsNoPoints(files[res.path_from])
  /\ Len(files[res.path].archives) = 2
  /\ HasPoint(files[res.path], 1, now)
  /\ StoredValue(files[res.path], 1, now) = float(5)

(***************************************************************************)
(* Diff: the positions of an archive that a diff compares, and what the    *)
(* two files hold there                                                    *)
(***************************************************************************)
DiffDone == res.op = "diff" /\ res.err = ""
fromFile == files[res.path_from]
toFile == files[res.path]
\* the value a file holds for interval t of archive k, None without a point
ValueAt(f, k, t) == IF HasPoint(f, k, t) THEN StoredValue(f, k, t) ELSE None
\* the end of the window of archive k: until_time (now when omitted), and no
\* later than the beginning of the window of any finer archive
RECURSIVE DiffUntil(_, _)
DiffUntil(f, k) ==
  IF k = 1 THEN (IF res.until_time \in {NoTime, 0} THEN now ELSE res.until_time)
  ELSE Min(now - Retention(f, k - 1), DiffUntil(f, k - 1))
DiffFirst(f, k) == AlignDown(now - Retention(f, k), StepOf(f, k)) + StepOf(f, k)
DiffEnd(f, k) ==
  LET last == AlignDown(DiffUntil(f, k), StepOf(f, k)) + StepOf(f, k)
  IN IF last = DiffFirst(f, k) THEN last + StepOf(f, k) ELSE last
DiffPositions(f, k) ==
  {t \in DiffFirst(f, k)..(DiffEnd(f, k) - 1) : (t - DiffFirst(f, k)) % StepOf(f, k) = 0}
\* the positions compared: both sides hold a value under ignore_empty, at
\* least one side does otherwise
Compared(k) ==
  {t \in DiffPositions(fromFile, k) :
     IF res.ignore_empty
     THEN ValueAt(fromFile, k, t) # None /\ ValueAt(toFile, k, t) # None
     ELSE ValueAt(fromFile, k, t) # None \/ ValueAt(toFile, k, t) # None}

\* C23: a diff that returns has one triple per archive, in archive order:
\* the index of the archive, the differing points and the number of compared
\* positions, where the compared positions are those at which both files
\* hold a value (ignore_empty) or at least one does (otherwise), and the
\* differing points are exactly the compared positions, each once, as
\* (timestamp, value_a, value_b), at which the two values are unequal
C23_DiffResult ==
  DiffDone =>
    /\ Len(res.diffs) = Len(fromFile.archives)
    /\ \A k \in 1..Len(res.diffs) :
         /\ res.diffs[k].archive = k - 1
         /\ res.diffs[k].total = Cardinality(Compared(k))
         /\ {res.diffs[k].diffs[j] : j \in 1..Len(res.diffs[k].diffs)}
              = {<<t, ValueAt(fromFile, k, t), ValueAt(toFile, k, t)>> :
                   t \in {u \in Compared(k) :
                            ValueAt(fromFile, k, u) # ValueAt(toFile, k, u)}}
         /\ \A j \in 1..(Len(res.diffs[k].diffs) - 1) :
              res.diffs[k].diffs[j][1] < res.diffs[k].diffs[j + 1][1]

\* without ignore_empty, one differing point of archive 0 that only the
\* first file holds, and an archive 1 in which nothing was compared
C23_Witness ==
  /\ DiffDone
  /\ ~res.ignore_empty
  /\ Len(res.diffs) = 2
  /\ Len(res.diffs[1].diffs) = 1
  /\ res.diffs[1].diffs[1][3] = None
  /\ res.diffs[1].total = 2
  /\ res.diffs[2] = [archive |-> 1, diffs |-> <<>>, total |-> 0]

\* the slots of archive k inside its whole retention window, cut at
\* until_time when given and at now
WholeWindow(f, k) ==
  {t \in (now - Retention(f, k) + 1)..Min(DiffUntil(f, 1), now) : t % StepOf(f, k) = 0}

\* C24 as claimed: a diff of two files of the same archive configuration
\* returns, and every slot of every archive inside that archive's whole
\* retention window, up to min(until_time, now), at which the two files
\* hold different values is listed in that archive's differing points
C24_AsClaimed ==
  (res.op = "diff" /\ fromFile.archives = toFile.archives) =>
    /\ res.err = ""
    /\ \A k \in 1..Len(fromFile.archives) : \A t \in WholeWindow(fromFile, k) :
         (/\ ValueAt(fromFile, k, t) # ValueAt(toFile, k, t)
          /\ (res.ignore_empty =>
                (ValueAt(fromFile, k, t) # None /\ ValueAt(toFile, k, t) # None)))
           => \E j \in 1..Len(res.diffs[k].diffs) :
                res.diffs[k].diffs[j]
                  = <<t, ValueAt(fromFile, k, t), ValueAt(toFile, k, t)>>

(***************************************************************************)
(* The aggregator                                                          *)
(***************************************************************************)
AggregateDone == res.op = "aggregate"
\* the sum of a vector of whole numbers, nulls counted as 0
RECURSIVE IntSum(_)
IntSum(s) == IF s = <<>> THEN 0 ELSE (IF s[1] = None THEN 0 ELSE s[1].n) + IntSum(Tail(s))
\* v is the quotient total / count
IsQuotient(v, total, count) == v.d > 0 /\ v.n * count = total * v.d
\* the first element of s that no other element exceeds in the order less
FirstExtreme(v, s, less(_, _)) ==
  \E i \in 1..Len(s) :
    /\ v = s[i]
    /\ \A j \in 1..Len(s) : ~less(s[i], s[j])
    /\ \A j \in 1..(i - 1) : less(s[j], s[i])

\* C25: on a non-empty vector of known values aggregate returns the mean
\* for average, the sum for sum, the last element for last, the maximum for
\* max, the minimum for min, the first of the elements of greatest absolute
\* value for absmax, the first of the elements of smallest absolute value
\* for absmin, and for avg_zero the sum of the known values divided by the
\* length of the neighbors vector; avg_zero without a neighbors vector and
\* an unknown method name fail with InvalidAggregationMethod
C25_Aggregator ==
  AggregateDone =>
    LET m == res.aggregationMethod
        s == res.knownValues
        v == res.value
        fails == \/ m \notin {"average", "sum", "last", "max", "min",
                              "avg_zero", "absmax", "absmin"}
                 \/ (m = "avg_zero" /\ res.neighborValues = NoNeighbors)
    IN /\ fails => res.err = "InvalidAggregationMethod"
       /\ ~fails =>
            /\ res.err = ""
            /\ m = "average" => IsQuotient(v, IntSum(s), Len(s))
            /\ m = "sum" => v = float(IntSum(s))
            /\ m = "last" => v = s[Len(s)]
            /\ m = "max" => FirstExtreme(v, s, LAMBDA x, y : RLess(x, y))
            /\ m = "min" => FirstExtreme(v, s, LAMBDA x, y : RLess(y, x))
            /\ m = "absmax" => FirstExtreme(v, s, LAMBDA x, y : RLess(RAbs(x), RAbs(y)))
            /\ m = "absmin" => FirstExtreme(v, s, LAMBDA x, y : RLess(RAbs(y), RAbs(x)))
            /\ m = "avg_zero" => IsQuotient(v, IntSum(s), Len(res.neighborValues))

\* absmax of (-2, 1, 2) is -2, the first of the two elements of absolute
\* value 2
C25_Witness ==
  /\ AggregateDone
  /\ res.aggregationMethod = "absmax"
  /\ res.knownValues = <<float(-2), float(1), float(2)>>
  /\ res.value = float(-2)

\* avg_zero of the known values (1, 2) of the neighbors (1, null, 2) is 1
C25_WitnessAvgZero ==
  /\ AggregateDone
  /\ res.aggregationMethod = "avg_zero"
  /\ res.neighborValues = <<float(1), None, float(2)>>
  /\ res.value = float(1)

(***************************************************************************)
(* Locking                                                                 *)
(***************************************************************************)
\* process p has read or written its file and has not closed it
Accessing(p) == procs[p].pc \in {"header", "base", "written", "neighbors"}

\* C26 as claimed: with LOCK on, a call that has made its first read or
\* write of a file and has not completed holds the exclusive lock, so no
\* two calls are in the middle of their reads and writes at the same time
C26_AsClaimed ==
  LOCK =>
    \A p \in Procs :
      Accessing(p) =>
        /\ procs[p].locked
        /\ \A q \in Procs \ {p} : ~Accessing(q)

(***************************************************************************)
(* The header cache                                                        *)
(***************************************************************************)
SetterDone == res.op \in {"setAggregationMethod", "setXFilesFactor"} /\ res.err = ""

\* C27 as claimed: once setAggregationMethod or setXFilesFactor has returned
\* successfully the header cache has no entry for the path, whatever
\* CACHE_HEADERS was during the call and before it, so that a header read
\* that follows returns the header that was written
C27_AsClaimed ==
  SetterDone =>
    /\ headerCache[res.path] = NoHeader
    /\ info(files[res.path], TRUE, headerCache[res.path]).header
         = readHeader(files[res.path])

\* C28 as claimed: with CACHE_HEADERS on, a header read of a path whose file
\* was replaced by a database of another archive list gives the archives of
\* the file that is on disk
C28_AsClaimed ==
  (/\ CACHE_HEADERS
   /\ res.op = "info" /\ res.err = ""
   /\ IsDatabase(files[res.path])) =>
     res.header.archives = readHeader(files[res.path]).archives

(***************************************************************************)
(* Resize                                                                  *)
(***************************************************************************)
Resizing == script.pc # "none"

\* C29 as claimed: at every step of a resize the original path names a
\* complete database, and the file that is there after the switch is the
\* new one
C29_AsClaimed ==
  Resizing =>
    /\ IsDatabase(files["a"])
    /\ script.pc = "switched" =>
         [i \in 1..Len(files["a"].archives) |->
            <<files["a"].archives[i].secondsPerPoint, files["a"].archives[i].points>>]
           = script.new_archives

(***************************************************************************)
(* The extent of the writes                                                *)
(***************************************************************************)
\* the positions of the body of f that belong to archive k
SlotsOf(f, k) ==
  {i \in 1..Len(f.body) :
     /\ BodyStart(f) + (i - 1) * pointSize >= f.archives[k].offset
     /\ BodyStart(f) + (i - 1) * pointSize
          < f.archives[k].offset + f.archives[k].points * pointSize}

\* C30 as claimed: a call of update, update_many or merge writes only
\* inside the archives: the header is as before, no byte is written past
\* the end of the last archive, and a slot of an archive that changes
\* receives a point of that archive's own intervals
C30_AsClaimed ==
  [][(res = Idle /\ res'.op \in {"update", "update_many", "merge"}) =>
       LET f == files[res'.path]
           g == files'[res'.path]
       IN /\ readHeader(g) = readHeader(f)
          /\ g.size = f.size
          /\ Len(g.body) = Len(f.body)
          /\ \A k \in 1..Len(f.archives) : \A i \in SlotsOf(f, k) :
               (i <= Len(g.body) /\ g.body[i] # f.body[i]) =>
                 g.body[i].ts % f.archives[k].secondsPerPoint = 0]_vars

(***************************************************************************)
(* The ring of an archive                                                  *)
(***************************************************************************)
\* the points of archive k in file order: slot 0 first
Ring(f, k) ==
  LET first == (f.archives[k].offset - BodyStart(f)) \div pointSize
  IN SubSeq(f.body, first + 1, first + f.archives[k].points)

\* slot i (from 0) of a ring is where its timestamp belongs, counted from
\* the timestamp of slot 0
InPlace(ring, i, step) ==
  ring[i + 1].ts # 0 =>
    /\ (ring[i + 1].ts - ring[1].ts) % step = 0
    /\ i = ((ring[i + 1].ts - ring[1].ts) \div step) % Len(ring)

\* C31 as claimed: in every archive of a database, each slot with a
\* non-zero timestamp lies where the ring places that timestamp relative to
\* the timestamp of slot 0, and a written archive has its slot 0 written
C31_AsClaimed ==
  \A p \in Paths : IsDatabase(files[p]) =>
    \A k \in 1..Len(files[p].archives) :
      LET ring == Ring(files[p], k)
      IN /\ (\E i \in 1..Len(ring) : ring[i].ts # 0) => ring[1].ts # 0
         /\ \A i \in 0..(Len(ring) - 1) : InPlace(ring, i, files[p].archives[k].secondsPerPoint)

\* C32 as claimed: every point stored in an archive has a timestamp that
\* is a multiple of the archive's secondsPerPoint
C32_AsClaimed ==
  \A p \in Paths : IsDatabase(files[p]) =>
    \A k \in 1..Len(files[p].archives) :
      \A i \in 1..Len(Ring(files[p], k)) :
        Ring(files[p], k)[i].ts % files[p].archives[k].secondsPerPoint = 0

(***************************************************************************)
(* The frame of a single-point update                                      *)
(***************************************************************************)
\* the slot (from 0) of a ring at which the interval T is stored
RingSlot(ring, step, T) ==
  IF ring[1].ts = 0 THEN 0 ELSE ((T - ring[1].ts) \div step) % Len(ring)
\* the slots (from 1) at which two rings differ
ChangedSlots(before, after) == {i \in 1..Len(before) : after[i] # before[i]}

\* C33: a successful update(value, timestamp, now) writes
\* (timestamp - timestamp mod step, value) into the ring slot of the first
\* archive whose retention is at least now - timestamp; the header, the
\* size, the other slots of that archive and all finer archives stay as
\* they are, and a coarser archive changes in at most one slot, the one of
\* its own interval, and only when the propagation into it succeeded
C33_UpdateFrame ==
  [][(res = Idle /\ res'.op = "update" /\ res'.err = "") =>
       LET f == files[res'.path]
           g == files'[res'.path]
           diff == now - res'.timestamp
           fits == {j \in 1..Len(f.archives) : Retention(f, j) >= diff}
           k == CHOOSE j \in fits : \A i \in fits : j <= i
           T == AlignDown(res'.timestamp, StepOf(f, k))
       IN /\ fits # {}
          /\ readHeader(g) = readHeader(f)
          /\ g.size = f.size /\ Len(g.body) = Len(f.body)
          /\ \A p \in Paths \ {res'.path} : files'[p] = files[p]
          /\ Ring(g, k) = [Ring(f, k) EXCEPT ![RingSlot(Ring(f, k), StepOf(f, k), T) + 1] =
                                                [ts |-> T, val |-> res'.value]]
          /\ \A j \in 1..(k - 1) : Ring(g, j) = Ring(f, j)
          /\ \A j \in (k + 1)..Len(f.archives) :
               \A i \in ChangedSlots(Ring(f, j), Ring(g, j)) :
                 /\ ChangedSlots(Ring(f, j), Ring(g, j)) = {i}
                 /\ Ring(g, j)[i].ts = AlignDown(T, StepOf(f, j))
                 /\ i = RingSlot(Ring(f, j), StepOf(f, j), AlignDown(T, StepOf(f, j))) + 1
                 /\ \E e \in 1..Len(res'.props) :
                      res'.props[e].lower = j /\ res'.props[e].ok]_vars

\* an update of age 2 on archives of retention 2 and 4: the point goes to
\* the finer archive, into the slot before the base, and the coarser
\* archive receives its aggregate
C33_Witness ==
  /\ UpdateDone
  /\ Len(fileA.archives) = 2 /\ Retention(fileA, 1) = 2
  /\ now - res.timestamp = 2
  /\ res.target = 1
  /\ Ring(fileA, 1)[1].ts > res.interval
  /\ Ring(fileA, 1)[2] = [ts |-> res.interval, val |-> res.value]
  /\ Len(res.props) = 1 /\ res.props[1].ok
  /\ HasPoint(fileA, 2, AlignDown(res.interval, 2))

(***************************************************************************)
(* Fetched values against the ring                                         *)
(***************************************************************************)
\* the point stored at the ring slot that the interval I addresses
SlotPoint(f, k, I) == Ring(f, k)[RingSlot(Ring(f, k), StepOf(f, k), I) + 1]

\* C34: element i of a fetch result is the stored value exactly when the
\* point at the ring slot addressed by fromInterval + i*step carries that
\* timestamp; an empty slot or a point of another lap gives null
C34_NoStaleData ==
  FetchData =>
    \A i \in 1..Len(res.out.values) :
       LET I == res.out.fromInterval + (i - 1) * res.out.step
           point == SlotPoint(fileA, res.out.archive, I)
       IN res.out.values[i] = IF point.ts = I THEN point.val ELSE None

\* a fetch that returns a stored value, a null for a point of an earlier
\* lap and, in another result, a null for a point of a later lap
C34_Witness ==
  /\ FetchData
  /\ \E i \in 1..Len(res.out.values) :
       LET I == res.out.fromInterval + (i - 1) * res.out.step
           point == SlotPoint(fileA, res.out.archive, I)
       IN /\ point.ts # 0 /\ point.ts < I
          /\ res.out.values[i] = None
  /\ \E i \in 1..Len(res.out.values) :
       LET I == res.out.fromInterval + (i - 1) * res.out.step
       IN /\ SlotPoint(fileA, res.out.archive, I).ts = I
          /\ res.out.values[i] # None

\* a fetch over a slot that holds a point of a later lap
C34_WitnessLater ==
  /\ FetchData
  /\ \E i \in 1..Len(res.out.values) :
       LET I == res.out.fromInterval + (i - 1) * res.out.step
       IN /\ SlotPoint(fileA, res.out.archive, I).ts > I
          /\ res.out.values[i] = None

(***************************************************************************)
(* The order of the cascade                                                *)
(***************************************************************************)
\* what a propagation into archive k + 1 reads for its interval T: the points
\* of archive k at the slots of T, null where the slot holds another stamp
NeighborsOf(f, k, T) ==
  [j \in 1..Ratio(f, k) |->
     LET u == T + (j - 1) * StepOf(f, k)
     IN IF SlotPoint(f, k, u).ts = u THEN SlotPoint(f, k, u).val ELSE None]

\* the single-point path: the propagations attempted start just above the
\* target and go up one archive at a time, each reading the archive just
\* below it; all but the last returned true, and the cascade stops only at
\* the coarsest archive or at a propagation that returned false
CascadeLog ==
  UpdateDone =>
    /\ \A e \in 1..Len(res.props) :
         /\ res.props[e].lower = res.target + e
         /\ e < Len(res.props) => res.props[e].ok
         /\ res.props[e].interval = AlignDown(res.interval, StepOf(fileA, res.target + e))
         /\ res.props[e].neighbors = Ratio(fileA, res.target + e - 1)
         /\ res.props[e].known =
              Len(SelectKnown(NeighborsOf(fileA, res.target + e - 1,
                                          res.props[e].interval)))
    /\ res.target + Len(res.props) <= Len(fileA.archives)
    /\ res.target + Len(res.props) < Len(fileA.archives) =>
         /\ res.props # <<>>
         /\ ~res.props[Len(res.props)].ok

\* the single-point path: archives above the last propagation are untouched
CascadeStops ==
  (res = Idle /\ res'.op = "update" /\ res'.err = "") =>
    \A j \in (res'.target + Len(res'.props) + 1)..Len(fileA.archives) :
       Ring(fileA', j) = Ring(fileA, j)

\* the distinct intervals of archive j that the points of a batch fall into
CoarseIntervals(f, points, j) ==
  {AlignDown(points[i][1], StepOf(f, j)) : i \in 1..Len(points)}
\* some interval of the batch propagates from archive j - 1 into archive j
SomePropagated(f, points, j) ==
  \E T \in CoarseIntervals(f, points, j) :
     propagate(f, readHeader(f), T, readHeader(f).archives[j - 1],
               readHeader(f).archives[j]).ok
\* the bulk cascade reaches archive j: every archive below it took a point
CascadeReaches(f, points, j) == \A i \in 2..(j - 1) : SomePropagated(f, points, i)

\* the bulk path, for a batch that falls into the finest archive: an archive
\* the cascade reaches holds the aggregate of every interval of the batch
\* that propagates, an archive it does not reach is untouched
CascadeMany ==
  (/\ res = Idle /\ res'.op = "update_many"
   /\ \A i \in 1..Len(res'.points) :
        now - res'.points[i][1] \in 0..Retention(fileA, 1)) =>
    \A j \in 2..Len(fileA.archives) :
       IF CascadeReaches(fileA', res'.points, j)
       THEN \A T \in CoarseIntervals(fileA, res'.points, j) :
              propagate(fileA', hdrA, T, hdrA.archives[j - 1],
                        hdrA.archives[j]).f = fileA'
       ELSE Ring(fileA', j) = Ring(fileA, j)

\* C35: in a single-point update the coarser archives are propagated in
\* ascending order, each from the archive just below it, and none is touched
\* after the first propagation that returns false; in the bulk path the
\* cascade goes on to the next archive exactly when one of the batch's
\* intervals propagated
C35_CascadeOrder == [](CascadeLog) /\ [][CascadeStops /\ CascadeMany]_vars

\* a batch of which one middle interval propagates (99 and 100 of 99..101)
\* and one does not (102 alone), after which the coarse archive holds the
\* aggregate of the middle one
C35_Witness ==
  /\ res.op = "update_many"
  /\ Len(fileA.archives) = 3
  /\ \E T \in CoarseIntervals(fileA, res.points, 2) :
       /\ HasPoint(fileA, 2, T)
       /\ HasPoint(fileA, 3, AlignDown(T, StepOf(fileA, 3)))
  /\ \E T \in CoarseIntervals(fileA, res.points, 2) :
       ~propagate(fileA, hdrA, T, hdrA.archives[1], hdrA.archives[2]).ok

\* a single update whose first propagation returned false
C35_WitnessStop ==
  /\ UpdateDone
  /\ res.target = 1 /\ Len(fileA.archives) = 3
  /\ Len(res.props) = 1 /\ ~res.props[1].ok

(***************************************************************************)
(* Writers under the lock                                                  *)
(***************************************************************************)
\* process p is between its flock and its close in a call that locks
InsideWriter(p) ==
  /\ takesLock(procs[p].op)
  /\ procs[p].pc \in {"opened", "header", "base", "written", "neighbors"}

\* what the call of a finished process does to the file it found when it is
\* run alone
Alone(x, f) ==
  CASE x.op = "update" -> file_update(f, x.value, x.timestamp, now).f
    [] x.op = "update_many" ->
         update_many(f, <<<<x.timestamp, x.value>>>>, now, TRUE)
    [] x.op = "setAggregationMethod" ->
         setAggregationRead(f, readHeader(f), x.method, None).f
    [] OTHER -> f

\* no two locking calls are inside the file together
OneWriter ==
  LOCK => \A p \in Procs : InsideWriter(p) => ~InsideWriter(OtherThan(p))

\* while a locking call is inside the file only its own steps change it, and
\* when it closes the file holds what the call run alone makes of the file
\* it found at its flock
WriterAlone ==
  LOCK =>
    \A p \in Procs :
       InsideWriter(p) =>
         /\ procs'[p] = procs[p] => files'["a"] = files["a"]
         /\ procs'[p].pc = "done" => files'["a"] = Alone(procs'[p], procs[p].start)

\* C36: with LOCK on, update, update_many and setAggregationMethod calls on
\* one file exclude each other from their flock to their close, each leaves
\* the file as it would running alone on the file it found, so that the
\* contents are those of the calls run one after the other in the order of
\* their flocks; a call waiting in flock obtains the lock, and a call that
\* holds it gives it up, returning or raising
C36_Serialized ==
  /\ [](OneWriter)
  /\ [][WriterAlone]_vars
  /\ \A p \in Procs : (procs[p].pc = "waiting") ~> (procs[p].pc # "idle" /\ procs[p].locked)
  /\ \A p \in Procs : (procs[p].pc # "idle" /\ procs[p].locked) ~> (procs[p].pc = "done")

\* an update waits in flock while the update of the other process, which
\* has written its point and not yet propagated it, holds the lock
C36_Witness ==
  /\ LOCK
  /\ procs["p"].pc = "waiting" /\ procs["p"].op = "update"
  /\ procs["q"].pc = "written" /\ procs["q"].op = "update" /\ procs["q"].locked

\* an update that raises TimestampNotCovered under the lock has closed its file
C36_WitnessRaise ==
  /\ LOCK
  /\ procs["p"].pc = "done" /\ procs["p"].op = "update"
  /\ now - procs["p"].timestamp >= procs["p"].header.maxRetention
  /\ procs["q"].pc = "waiting"

(***************************************************************************)
(* Two updates without the lock                                            *)
(***************************************************************************)
\* the two processes have run one update each, together and with no third
\* call beside them, and both have closed the file; first is the one that
\* began first
PairDone(first) ==
  /\ procs[first].pc = "done" /\ procs[first].raced = "first"
  /\ procs[OtherThan(first)].pc = "done" /\ procs[OtherThan(first)].raced = "second"

\* the files the two updates leave when run one after the other, in either
\* order, on the file the first one found
SerialOutcomes(first) ==
  LET x == procs[first]
      y == procs[OtherThan(first)]
  IN {Alone(y, Alone(x, x.origin)), Alone(x, Alone(y, x.origin))}

NonSerial(first) == PairDone(first) /\ fileA \notin SerialOutcomes(first)

\* C37: two updates that run together can leave the file in a state that
\* neither order of the two calls produces, and only with LOCK off
C37_OnlyWithoutLock == \A p \in Procs : NonSerial(p) => ~LOCK

\* a fine point that was written and then lost: both updates read the base
\* interval of the empty archive, both wrote their point into slot 0, and
\* the file holds one of the two timestamps only
C37_Witness ==
  \E p \in Procs :
     /\ NonSerial(p) /\ ~LOCK
     /\ procs["p"].value # None /\ procs["q"].value # None
     /\ procs["p"].timestamp # procs["q"].timestamp
     /\ \E x \in Procs : ~HasPoint(fileA, 1, procs[x].timestamp)

\* a coarse slot that is not the aggregate of the fine points of its
\* interval: both fine points are stored, the coarse slot holds the average
\* that one update computed before the other wrote its point
C37_WitnessCoarse ==
  \E p \in Procs :
     /\ NonSerial(p) /\ ~LOCK
     /\ procs["p"].value # None /\ procs["q"].value # None
     /\ \A x \in Procs : HasPoint(fileA, 1, procs[x].timestamp)
     /\ hdrA.aggregationMethod = "average"
     /\ \E T \in {AlignDown(procs[x].timestamp, 2) : x \in Procs} :
          /\ HasPoint(fileA, 2, T)
          /\ StoredValue(fileA, 2, T) #
               aggregate("average", SelectKnown(NeighborsOf(fileA, 1, T)),
                         NeighborsOf(fileA, 1, T))

(***************************************************************************)
(* Writes against newer data                                               *)
(***************************************************************************)
\* C38 as claimed: no write of a successful update, into the target archive
\* or into a coarser one by propagation, replaces a stored point whose
\* timestamp is greater than the one written
C38_AsClaimed ==
  [][(res = Idle /\ res'.op = "update" /\ res'.err = "") =>
       \A j \in 1..Len(fileA.archives) :
          \A i \in ChangedSlots(Ring(fileA, j), Ring(fileA', j)) :
             Ring(fileA, j)[i].ts <= Ring(fileA', j)[i].ts]_vars

(***************************************************************************)
(* The bulk path against repeated single updates                           *)
(***************************************************************************)
\* the archive a point of timestamp t is written to at this time, and the
\* ring slot it takes there
TargetOf(f, t) == targetArchive(readHeader(f), now - t)
SlotKey(f, t) ==
  <<TargetOf(f, t),
    (AlignDown(t, StepOf(f, TargetOf(f, t))) \div StepOf(f, TargetOf(f, t)))
      % f.archives[TargetOf(f, t)].points>>

\* a batch as the claim takes it: every timestamp inside the retention, no
\* two points for one slot
PlainBatch(f, points) ==
  /\ \A i \in 1..Len(points) :
       now - points[i][1] >= 0 /\ now - points[i][1] < f.maxRetention
  /\ \A i, j \in 1..Len(points) :
       i # j => SlotKey(f, points[i][1]) # SlotKey(f, points[j][1])

\* update(v, t, now) once per point, in the order of the sequence
RECURSIVE Singles(_, _)
Singles(f, points) ==
  IF points = <<>> THEN f
  ELSE Singles(file_update(f, points[1][2], points[1][1], now).f, Tail(points))

\* what fetch returns from archive k over its whole retention
Contents(f, k) ==
  archive_fetch(f, readHeader(f).archives[k], now - Retention(f, k), now)

\* C39 as claimed: update_many of a plain batch leaves every archive with
\* the fetch result that update, called once per point in ascending
\* timestamp order, leaves
C39_AsClaimed ==
  [][(/\ res = Idle /\ res'.op = "update_many"
      /\ PlainBatch(fileA, res'.points)) =>
       \A k \in 1..Len(fileA.archives) :
          Contents(fileA', k) =
            Contents(Singles(fileA, Reverse(sortNewestFirst(res'.points))), k)]_vars

(***************************************************************************)
(* What a create call leaves at its path                                   *)
(***************************************************************************)
\* C40 as claimed: after a create call on a path where no file existed,
\* either the call succeeded and info returns a valid header, or the call
\* raised and there is no file at the path
C40_AsClaimed ==
  [][(res = Idle /\ res'.op = "create" /\ ~Exists(files[res'.path])) =>
       IF res'.err = ""
       THEN /\ Exists(files'[res'.path])
            /\ info(files'[res'.path], FALSE, NoHeader).err = ""
       ELSE ~Exists(files'[res'.path])]_vars

====
